---------------------------- MODULE Spec2Model ----------------------------
(***************************************************************************)
(* Diagnostic handler and diagnostic builder of librustc_errors.           *)
(*                                                                         *)
(* One Handler (a session) with its HandlerInner state, the emitter it     *)
(* forwards to, the thread-local tracking hook, one DiagnosticBuilder slot *)
(* and one caller-owned Vec<Diagnostic> that builders are buffered into.   *)
(* A panic or a FatalError::raise is the variable unwind leaving "none":   *)
(* from then on the stack unwinds and only destructors run.                *)
(*                                                                         *)
(* Spec is one thread driving the session.  SpecThreads is two worker      *)
(* threads sharing the Handler and calling Handler::emit_diagnostic, each  *)
(* statement of the call a step of its own.  SpecCount is a session that    *)
(* emits errors carrying error codes and ends with print_error_count.      *)
(* SpecSplice applies CodeSuggestion::splice_lines to a substitution.      *)
(* SpecPat is the pattern checker of librustc_typeck: FnCtxt::check_pat_top *)
(* on a pattern and an expected type.                                      *)
(***************************************************************************)
EXTENDS Integers, Sequences, FiniteSets, TLC

VARIABLES
    flags,                \* Handler.flags = HandlerInner.flags (immutable)
    inner,                \* Handler.inner: the HandlerInner behind the lock
    tracked,              \* calls received by the TRACK_DIAGNOSTICS hook
    unwind,               \* the unwind signal in flight, "none" when running
    builder,              \* the DiagnosticBuilder slot
    buffered_diagnostics, \* the caller's Vec<Diagnostic> given to buffer()
    handler_alive,        \* FALSE once the Handler has been destroyed
    steps,                \* number of operations called so far
    last,                 \* the last operation, its arguments and pre-state
    lock,                 \* the thread holding the guard of Handler.inner
    threads,              \* each worker thread's position in its call
    driver,               \* the Registry and the emitter's should_show_explain
    splice,               \* a call of splice_lines: its substitution, its result
    typeck                \* a call into the pattern checker and its tables

vars == <<flags, inner, tracked, unwind, builder, buffered_diagnostics,
          handler_alive, steps, last, lock, threads, driver, splice,
          typeck>>

\* what the single-threaded session leaves alone
outside_session == <<lock, threads, driver, splice, typeck>>

-----------------------------------------------------------------------------
(* Bounds and input sets *)

MaxSteps == 3

MaxThreshold == 2

Level == {"Bug", "Fatal", "Error", "Warning", "Note", "Help", "Cancelled",
          "FailureNote"}

None == {}

Some(x) == {x}

Msgs == {"m1"}

BombMsg == "the following error was constructed but not emitted"

Spans == {"sp1"}

\* DiagnosticId::Error(code): zero-padded, so that the order of the strings
\* is the order of the numbers
ErrorCode(k) == IF k < 10 THEN "E000" \o ToString(k) ELSE "E00" \o ToString(k)

Codes == {ErrorCode(1)}

\* error codes a counting session can record
MaxCodes == 10

\* diagnostics a counting session emits before it prints the count
MaxEmits == 11

\* lines of the source file a suggestion is spliced into
MaxLines == 2

\* parts of a substitution
MaxParts == 2

ErrorCodes == {ErrorCode(k) : k \in 1..MaxCodes}

\* DiagnosticId::Lint(name)
LintIds == {"unused"}

NoDriver == [registry |-> {}, should_show_explain |-> FALSE]

NoSplice == [pc |-> "none", parts |-> <<>>, buf |-> <<>>]

\* layers of reference on an expected type
MaxLayers == 3

\* patterns nested in a pattern
MaxDepth == 2

\* the longest array matched against
MaxSize == 2

MutMutable == "MutMutable"

MutImmutable == "MutImmutable"

Mutability == {MutMutable, MutImmutable}

BindByValue(m) == [by |-> "value", m |-> m]

BindByReference(m) == [by |-> "reference", m |-> m]

BindingMode ==
    {BindByValue(m) : m \in Mutability} \cup
    {BindByReference(m) : m \in Mutability}

\* ty::TyKind, as far as patterns look at it
Prim(n) == [k |-> "prim", n |-> n]

Ref(m, t) == [k |-> "ref", m |-> m, t |-> t]

Tuple(ts) == [k |-> "tuple", ts |-> ts]

Box(t) == [k |-> "box", t |-> t]

Infer(id) == [k |-> "infer", id |-> id]

Adt(name) == [k |-> "adt", name |-> name]

Array(t, size) == [k |-> "array", t |-> t, size |-> size]

Slice(t) == [k |-> "slice", t |-> t]

Dynamic == [k |-> "dynamic"]

\* tcx.types.err
Error == [k |-> "err"]

\* the tables and the inference context a check writes to
NoTables ==
    [node_types |-> <<>>, pat_binding_modes |-> <<>>,
     pat_adjustments |-> <<>>, subst |-> <<>>, next_ty_var |-> 0,
     diags |-> <<>>, root |-> <<>>, calls |-> <<>>, demands |-> <<>>,
     panicked |-> FALSE]

NoTypeck ==
    [pc |-> "none", pat |-> <<>>, expected |-> Error,
     def_bm |-> BindByValue(MutImmutable), cx |-> NoTables,
     ret |-> [expected |-> Error, def_bm |-> BindByValue(MutImmutable)]]

\* calls of Handler::emit_diagnostic each worker thread makes
MaxCalls == 1

Threads == {"t1", "t2"}

NoThread == "nobody"

-----------------------------------------------------------------------------
(* Diagnostic record (diagnostic.rs) *)

Diagnostic_new_with_code(level, code, message) ==
    [level |-> level, message |-> message, code |-> code, span |-> None]

Diagnostic_new(level, message) == Diagnostic_new_with_code(level, None, message)

set_span(d, sp) == [d EXCEPT !.span = Some(sp)]

set_code(d, c) == [d EXCEPT !.code = Some(c)]

cancel(d) == [d EXCEPT !.level = "Cancelled"]

cancelled(d) == d.level = "Cancelled"

is_error(d) == d.level \in {"Bug", "Fatal", "Error"}

\* The stable content hash of a diagnostic: a function of level, message,
\* spans and code that separates diagnostics differing in any of them.
hash(d) == <<d.level, d.message, d.span, d.code>>

\* The diagnostics handed to Handler::emit_diagnostic: one per way the
\* pipeline treats a level, and a second error that differs in its message.
DiagInputs ==
    {Diagnostic_new(l, "m1") : l \in {"Error", "Warning", "Note", "Cancelled"}}
        \cup {Diagnostic_new("Error", "m2")}

\* The diagnostics handed to Handler::force_print_diagnostic.
ForcePrintInputs ==
    {Diagnostic_new(l, "m1") : l \in {"Warning", "Cancelled"}}

NoDiag == Diagnostic_new("Cancelled", "")

-----------------------------------------------------------------------------
(* The state an operation runs against and hands back *)

World == [inner |-> inner, tracked |-> tracked, unwind |-> unwind]

\* Sequencing: g runs after w unless w is already unwinding.
Then(w, g(_)) == IF w.unwind # "none" THEN w ELSE g(w)

raise(w, signal) == [w EXCEPT !.unwind = signal]

-----------------------------------------------------------------------------
(* HandlerInner *)

\* Mutant of treat_err_as_bug: the threshold counts as reached one error late.
treat_err_as_bug_late(h) ==
    \E c \in flags.treat_err_as_bug : h.err_count > c

treat_err_as_bug(h) == \E c \in flags.treat_err_as_bug : h.err_count >= c

panic_if_treat_err_as_bug(w) ==
    IF treat_err_as_bug(w.inner)
    THEN LET count  == w.inner.err_count
             as_bug == IF flags.treat_err_as_bug = None THEN 0
                       ELSE CHOOSE c \in flags.treat_err_as_bug : TRUE
         IN  CASE count = 0 -> w
               [] count = 1 /\ as_bug = 1 -> raise(w, "treat_err_as_bug")
               [] count = 1 /\ as_bug # 1 -> w
               [] OTHER -> raise(w, "treat_err_as_bug")
    ELSE w

bump_err_count(w) ==
    panic_if_treat_err_as_bug([w EXCEPT !.inner.err_count = @ + 1])

\* Mutant of emit_if_new: the emitter is called without consulting the set.
emit_if_new_unconditional(w, d) ==
    [w EXCEPT !.inner.emitted_diagnostics = @ \cup {hash(d)},
              !.inner.emitter = Append(@, d),
              !.inner.deduplicated_err_count =
                   IF is_error(d) THEN @ + 1 ELSE @]

\* lines 698-705: forward to the emitter unless an equal diagnostic was seen
emit_if_new(w, d) ==
    IF hash(d) \notin w.inner.emitted_diagnostics
    THEN [w EXCEPT !.inner.emitted_diagnostics = @ \cup {hash(d)},
                   !.inner.emitter = Append(@, d),
                   !.inner.deduplicated_err_count =
                        IF is_error(d) THEN @ + 1 ELSE @]
    ELSE w

\* Mutant of track_and_record: the hook is not called.
record_without_tracking(w, d) ==
    [w EXCEPT !.inner.emitted_diagnostic_codes = @ \cup d.code]

track_and_record(w, d) ==
    [w EXCEPT !.tracked = Append(@, d),
              !.inner.emitted_diagnostic_codes = @ \cup d.code]

emit_diagnostic(w, d) ==
    IF cancelled(d) THEN w
    ELSE IF d.level = "Warning" /\ ~flags.can_emit_warnings THEN w
    ELSE LET w1 == emit_if_new(track_and_record(w, d), d)
         IN  IF is_error(d) THEN bump_err_count(w1) ELSE w1

force_print_diagnostic(w, db) == [w EXCEPT !.inner.emitter = Append(@, db)]

abort_if_errors_and_should_abort(w) ==
    IF w.inner.err_count > 0 /\ ~w.inner.continue_after_error
    THEN raise(w, "FatalError") ELSE w

\* Mutant of abort_if_errors: it also consults continue_after_error.
abort_if_errors_unless_continuing(w) ==
    IF w.inner.err_count > 0 /\ ~w.inner.continue_after_error
    THEN raise(w, "FatalError") ELSE w

abort_if_errors(w) ==
    IF w.inner.err_count > 0 THEN raise(w, "FatalError") ELSE w

span_bug(w, sp, msg) ==
    LET w1 == emit_diagnostic(w, set_span(Diagnostic_new("Bug", msg), sp))
        w2 == Then(w1, abort_if_errors_and_should_abort)
    IN  Then(w2, LAMBDA x : raise(x, "ExplicitBug"))

\* the emission alone
emit_only(w, d) == emit_diagnostic(w, d)

\* self.emit_diagnostic(..); self.abort_if_errors_and_should_abort();
emit_and_abort(w, d) ==
    Then(emit_diagnostic(w, d), abort_if_errors_and_should_abort)

\* the FatalError that span_fatal returns is a value, it is not raised
span_fatal(w, sp, msg) ==
    emit_and_abort(w, set_span(Diagnostic_new("Fatal", msg), sp))

span_fatal_with_code(w, sp, msg, code) ==
    emit_and_abort(w, set_span(Diagnostic_new_with_code("Fatal", Some(code),
                                                        msg), sp))

span_err(w, sp, msg) ==
    emit_and_abort(w, set_span(Diagnostic_new("Error", msg), sp))

span_err_with_code(w, sp, msg, code) ==
    emit_and_abort(w, set_span(Diagnostic_new_with_code("Error", Some(code),
                                                        msg), sp))

span_warn(w, sp, msg) ==
    emit_and_abort(w, set_span(Diagnostic_new("Warning", msg), sp))

span_warn_with_code(w, sp, msg, code) ==
    emit_and_abort(w, set_span(Diagnostic_new_with_code("Warning", Some(code),
                                                        msg), sp))

span_bug_no_panic(w, sp, msg) ==
    emit_and_abort(w, set_span(Diagnostic_new("Bug", msg), sp))

span_note_without_error(w, sp, msg) ==
    emit_and_abort(w, set_span(Diagnostic_new("Note", msg), sp))

bug(w, msg) ==
    LET w1 == emit_diagnostic(w, Diagnostic_new("Bug", msg))
    IN  Then(w1, LAMBDA x : raise(x, "ExplicitBug"))

delay_as_bug(w, diagnostic) ==
    LET w1 == IF flags.report_delayed_bugs
              THEN emit_diagnostic(w, diagnostic) ELSE w
    IN  Then(w1, LAMBDA x :
                 [x EXCEPT !.inner.delayed_span_bugs = Append(@, diagnostic)])

\* Mutant of delay_span_bug: the threshold test is left out.
delay_span_bug_unchecked(w, sp, msg) ==
    delay_as_bug(w, set_span(Diagnostic_new("Bug", msg), sp))

delay_span_bug(w, sp, msg) ==
    IF treat_err_as_bug(w.inner)
    THEN span_bug(w, sp, msg)
    ELSE delay_as_bug(w, set_span(Diagnostic_new("Bug", msg), sp))

failure(w, msg) == emit_diagnostic(w, Diagnostic_new("FailureNote", msg))

fatal(w, msg) ==
    IF treat_err_as_bug(w.inner) THEN bug(w, msg)
    ELSE emit_diagnostic(w, Diagnostic_new("Fatal", msg))

\* lines 720-724: the text of the summary
summary(count) ==
    IF count = 1 THEN "aborting due to previous error"
    ELSE "aborting due to " \o ToString(count) \o " previous errors"

\* the number k of the error code "E<k>"
code_number(c) == CHOOSE k \in 1..(MaxCodes + 1) : ErrorCode(k) = c

\* lines 734-743: the recorded ids that are error codes with a description
explainable(codes, registry) ==
    {c \in codes : c \notin LintIds /\ c \in registry}

\* Vec<String>::sort
RECURSIVE sort(_)
sort(S) ==
    IF S = {} THEN <<>>
    ELSE LET m == CHOOSE c \in S :
                      \A o \in S : code_number(c) <= code_number(o)
         IN  <<m>> \o sort(S \ {m})

\* [String]::join(", ")
RECURSIVE join(_)
join(s) ==
    IF s = <<>> THEN ""
    ELSE IF Len(s) = 1 THEN s[1]
    ELSE s[1] \o ", " \o join(Tail(s))

\* Mutant of explain_limit: every code is listed.
explain_limit_none(n) == n

\* line 747
explain_limit(n) == IF n > 9 THEN 9 ELSE n

\* lines 744-759: the notes naming the explainable codes (the backquotes
\* around the command are left out of the text)
print_explanations(w, registry) ==
    LET error_codes == sort(explainable(w.inner.emitted_diagnostic_codes,
                                        registry))
        n == Len(error_codes)
    IN  IF n = 0 THEN w
        ELSE IF n > 1
        THEN LET limit == explain_limit(n)
                 w1 == failure(w,
                           "Some errors have detailed explanations: "
                               \o join(SubSeq(error_codes, 1, limit))
                               \o (IF n > 9 THEN "..." ELSE "."))
             IN  Then(w1, LAMBDA x : failure(x,
                     "For more information about an error, try rustc --explain "
                         \o error_codes[1] \o "."))
        ELSE failure(w,
                 "For more information about this error, try rustc --explain "
                     \o error_codes[1] \o ".")

print_error_count(w, registry, can_show_explain) ==
    IF w.inner.deduplicated_err_count = 0 THEN w
    ELSE IF treat_err_as_bug(w.inner) THEN w
    ELSE LET w1 == fatal(w, summary(w.inner.deduplicated_err_count))
         IN  Then(w1, LAMBDA x :
                 IF can_show_explain /\ x.inner.emitted_diagnostic_codes # {}
                 THEN print_explanations(x, registry) ELSE x)

\* impl Drop for HandlerInner: the flush loop over the taken bugs
RECURSIVE emit_bugs(_, _)
emit_bugs(w, bugs) ==
    IF bugs = <<>> \/ w.unwind # "none" THEN w
    ELSE emit_bugs(emit_diagnostic(w, Head(bugs)), Tail(bugs))

\* Mutant of flush_delayed_span_bugs: the flush does not look at err_count.
flush_delayed_span_bugs_always(w) ==
    LET bugs     == w.inner.delayed_span_bugs
        has_bugs == bugs # <<>>
        w1 == emit_bugs([w EXCEPT !.inner.delayed_span_bugs = <<>>], bugs)
    IN  Then(w1, LAMBDA x :
                 IF has_bugs THEN raise(x, "delayed_span_bug") ELSE x)

flush_delayed_span_bugs(w) ==
    IF w.inner.err_count = 0
    THEN LET bugs     == w.inner.delayed_span_bugs
             has_bugs == bugs # <<>>
             w1 == emit_bugs([w EXCEPT !.inner.delayed_span_bugs = <<>>], bugs)
         IN  Then(w1, LAMBDA x :
                      IF has_bugs THEN raise(x, "delayed_span_bug") ELSE x)
    ELSE w

\* The destructor also runs while the stack unwinds; a panic raised by a
\* destructor during an unwind aborts the process.
HandlerInner_drop(w) ==
    LET r == flush_delayed_span_bugs([w EXCEPT !.unwind = "none"])
    IN  IF w.unwind = "none" THEN r
        ELSE IF r.unwind # "none" THEN raise(r, "abort")
        ELSE [r EXCEPT !.unwind = w.unwind]

\* a reset of the raw counter and of the hashes only
reset_raw_count(w) ==
    [w EXCEPT !.inner.emitted_diagnostics = {},
              !.inner.err_count = 0]

\* a reset of the two counters that keeps the hashes
reset_counters(w) ==
    [w EXCEPT !.inner.deduplicated_err_count = 0,
              !.inner.err_count = 0]

reset_err_count(w) ==
    [w EXCEPT !.inner.emitted_diagnostics = {},
              !.inner.deduplicated_err_count = 0,
              !.inner.err_count = 0]

set_continue_after_error(w, continue_after_error) ==
    [w EXCEPT !.inner.continue_after_error = continue_after_error]

-----------------------------------------------------------------------------
(* DiagnosticBuilder: c is the builder (its diagnostic db, whether it is    *)
(* still owned by the caller) together with the world it acts on and the    *)
(* caller's buffer.                                                         *)

Ctx == [w |-> World, db |-> builder.diagnostic, alive |-> builder.alive,
        v |-> buffered_diagnostics]

DiagnosticBuilder_cancel(c) == [c EXCEPT !.db = cancel(@)]

\* Mutant of DiagnosticBuilder_emit: the builder is not cancelled afterwards.
DiagnosticBuilder_emit_no_cancel(c) ==
    [c EXCEPT !.w = emit_diagnostic(c.w, c.db)]

DiagnosticBuilder_emit(c) ==
    LET c1 == [c EXCEPT !.w = emit_diagnostic(c.w, c.db)]
    IN  IF c1.w.unwind # "none" THEN c1 ELSE DiagnosticBuilder_cancel(c1)

\* Mutant of DiagnosticBuilder_delay_as_bug: the level is left as it was.
DiagnosticBuilder_delay_as_bug_keep_level(c) ==
    LET c2 == [c EXCEPT !.w = delay_as_bug(c.w, c.db)]
    IN  IF c2.w.unwind # "none" THEN c2 ELSE DiagnosticBuilder_cancel(c2)

DiagnosticBuilder_delay_as_bug(c) ==
    LET c1 == [c EXCEPT !.db.level = "Bug"]
        c2 == [c1 EXCEPT !.w = delay_as_bug(c1.w, c1.db)]
    IN  IF c2.w.unwind # "none" THEN c2 ELSE DiagnosticBuilder_cancel(c2)

DiagnosticBuilder_emit_unless(c, delay) ==
    IF delay THEN DiagnosticBuilder_delay_as_bug(c)
    ELSE DiagnosticBuilder_emit(c)

\* panicking(): an unwind is in progress on this thread
panicking(c) == c.w.unwind # "none"

\* Mutant of DiagnosticBuilder_drop: the original is emitted before the bomb.
DiagnosticBuilder_drop_bomb_last(c) ==
    IF ~panicking(c) /\ ~cancelled(c.db)
    THEN LET c1 == DiagnosticBuilder_emit(c)
             bomb == DiagnosticBuilder_emit(
                         [c1 EXCEPT !.db = Diagnostic_new("Bug", BombMsg)])
             c2 == IF panicking(c1) THEN c1 ELSE [c1 EXCEPT !.w = bomb.w]
             c3 == IF panicking(c2) THEN c2
                   ELSE [c2 EXCEPT !.w = raise(@, "panic")]
         IN  [c3 EXCEPT !.alive = FALSE]
    ELSE [c EXCEPT !.alive = FALSE]

DiagnosticBuilder_drop(c) ==
    IF ~panicking(c) /\ ~cancelled(c.db)
    THEN LET bomb == DiagnosticBuilder_emit(
                         [c EXCEPT !.db = Diagnostic_new("Bug", BombMsg)])
             c1 == [c EXCEPT !.w = bomb.w]
             c2 == IF panicking(c1) THEN c1 ELSE DiagnosticBuilder_emit(c1)
             c3 == IF panicking(c2) THEN c2
                   ELSE [c2 EXCEPT !.w = raise(@, "panic")]
         IN  [c3 EXCEPT !.alive = FALSE]
    ELSE [c EXCEPT !.alive = FALSE]

\* Mutant of DiagnosticBuilder_buffer: only dont_buffer_diagnostics is tested.
DiagnosticBuilder_buffer_one_flag(c) ==
    IF flags.dont_buffer_diagnostics
    THEN DiagnosticBuilder_drop(DiagnosticBuilder_emit(c))
    ELSE [c EXCEPT !.v = Append(@, c.db), !.alive = FALSE]

\* buffer takes the builder by value: it is dropped on return and on unwind,
\* or forgotten once its diagnostic has been moved out.
DiagnosticBuilder_buffer(c) ==
    IF flags.dont_buffer_diagnostics \/ flags.treat_err_as_bug # None
    THEN DiagnosticBuilder_drop(DiagnosticBuilder_emit(c))
    ELSE [c EXCEPT !.v = Append(@, c.db), !.alive = FALSE]

new_diagnostic(c, diagnostic) == [c EXCEPT !.db = diagnostic, !.alive = TRUE]

struct_dummy(c) == new_diagnostic(c, Diagnostic_new("Cancelled", ""))

\* Mutant of cancel_unless_can_emit_warnings: the builder is returned as built.
never_cancel(c) == c

cancel_unless_can_emit_warnings(c) ==
    IF ~flags.can_emit_warnings THEN DiagnosticBuilder_cancel(c) ELSE c

struct_span_warn(c, sp, msg) ==
    cancel_unless_can_emit_warnings(
        new_diagnostic(c, set_span(Diagnostic_new("Warning", msg), sp)))

struct_span_warn_with_code(c, sp, msg, code) ==
    cancel_unless_can_emit_warnings(
        new_diagnostic(c, set_code(set_span(Diagnostic_new("Warning", msg), sp),
                                   code)))

struct_warn(c, msg) ==
    cancel_unless_can_emit_warnings(
        new_diagnostic(c, Diagnostic_new("Warning", msg)))

struct_span_err(c, sp, msg) ==
    new_diagnostic(c, set_span(Diagnostic_new("Error", msg), sp))

struct_err_with_code(c, msg, code) ==
    new_diagnostic(c, set_code(Diagnostic_new("Error", msg), code))

span_note_diag(c, sp, msg) ==
    new_diagnostic(c, set_span(Diagnostic_new("Note", msg), sp))

-----------------------------------------------------------------------------
(* Initial state: Handler::with_emitter_and_flags *)

HandlerFlags ==
    [can_emit_warnings : BOOLEAN,
     treat_err_as_bug : {None} \cup {Some(n) : n \in 0..MaxThreshold},
     dont_buffer_diagnostics : BOOLEAN,
     report_delayed_bugs : BOOLEAN]

with_emitter_and_flags ==
    [err_count |-> 0,
     deduplicated_err_count |-> 0,
     emitter |-> <<>>,
     continue_after_error |-> TRUE,
     delayed_span_bugs |-> <<>>,
     taught_diagnostics |-> {},
     emitted_diagnostic_codes |-> {},
     emitted_diagnostics |-> {}]

\* a worker thread outside any call
Idle == [pc |-> "idle", d |-> NoDiag, fresh |-> FALSE, unwind |-> "none",
         done |-> <<>>]

Snapshot == [inner |-> inner, tracked |-> tracked, unwind |-> unwind,
             builder |-> builder, v |-> buffered_diagnostics]

Init ==
    /\ flags \in HandlerFlags
    /\ inner = with_emitter_and_flags
    /\ tracked = <<>>
    /\ unwind = "none"
    /\ builder = [alive |-> FALSE, diagnostic |-> NoDiag]
    /\ buffered_diagnostics = <<>>
    /\ handler_alive = TRUE
    /\ steps = 0
    /\ lock = NoThread
    /\ threads = [t \in Threads |-> Idle]
    /\ driver = NoDriver
    /\ splice = NoSplice
    /\ typeck = NoTypeck
    /\ last = [op |-> "with_emitter_and_flags", d |-> NoDiag, flag |-> FALSE,
               pre |-> [inner |-> with_emitter_and_flags, tracked |-> <<>>,
                        unwind |-> "none",
                        builder |-> [alive |-> FALSE, diagnostic |-> NoDiag],
                        v |-> <<>>]]

-----------------------------------------------------------------------------
(* Actions: one per public operation of Handler and DiagnosticBuilder *)

Running == handler_alive /\ unwind = "none" /\ steps < MaxSteps

\* The operation named op, called with d and flag, leaves the world as w.
HandlerStep(op, d, flag, w) ==
    /\ inner' = w.inner
    /\ tracked' = w.tracked
    /\ unwind' = w.unwind
    /\ steps' = steps + 1
    /\ last' = [op |-> op, d |-> d, flag |-> flag, pre |-> Snapshot]
    /\ UNCHANGED <<flags, builder, buffered_diagnostics, handler_alive>>
    /\ UNCHANGED outside_session

\* The builder operation named op, called with flag, leaves builder, world
\* and buffer as c.
BuilderStep(op, flag, c) ==
    /\ inner' = c.w.inner
    /\ tracked' = c.w.tracked
    /\ unwind' = c.w.unwind
    /\ builder' = [alive |-> c.alive, diagnostic |-> c.db]
    /\ buffered_diagnostics' = c.v
    /\ steps' = steps + 1
    /\ last' = [op |-> op, d |-> builder.diagnostic, flag |-> flag,
                pre |-> Snapshot]
    /\ UNCHANGED <<flags, handler_alive>>
    /\ UNCHANGED outside_session

EmitDiagnostic ==
    /\ Running
    /\ \E d \in DiagInputs :
          HandlerStep("emit_diagnostic", d, FALSE, emit_diagnostic(World, d))

ForcePrintDiagnostic ==
    /\ Running
    /\ \E d \in ForcePrintInputs :
          HandlerStep("force_print_diagnostic", d, FALSE,
                      force_print_diagnostic(World, d))

ResetErrCount ==
    /\ Running
    /\ HandlerStep("reset_err_count", NoDiag, FALSE, reset_err_count(World))

SetContinueAfterError ==
    /\ Running
    /\ \E b \in BOOLEAN :
          HandlerStep("set_continue_after_error", NoDiag, b,
                      set_continue_after_error(World, b))

SpanFatal ==
    /\ Running
    /\ \E sp \in Spans, msg \in Msgs :
          HandlerStep("span_fatal", set_span(Diagnostic_new("Fatal", msg), sp),
                      FALSE, span_fatal(World, sp, msg))

SpanFatalWithCode ==
    /\ Running
    /\ \E sp \in Spans, msg \in Msgs, code \in Codes :
          HandlerStep("span_fatal_with_code",
                      set_span(Diagnostic_new_with_code("Fatal", Some(code),
                                                        msg), sp),
                      FALSE, span_fatal_with_code(World, sp, msg, code))

SpanErr ==
    /\ Running
    /\ \E sp \in Spans, msg \in Msgs :
          HandlerStep("span_err", set_span(Diagnostic_new("Error", msg), sp),
                      FALSE, span_err(World, sp, msg))

SpanErrWithCode ==
    /\ Running
    /\ \E sp \in Spans, msg \in Msgs, code \in Codes :
          HandlerStep("span_err_with_code",
                      set_span(Diagnostic_new_with_code("Error", Some(code),
                                                        msg), sp),
                      FALSE, span_err_with_code(World, sp, msg, code))

SpanWarn ==
    /\ Running
    /\ \E sp \in Spans, msg \in Msgs :
          HandlerStep("span_warn",
                      set_span(Diagnostic_new("Warning", msg), sp),
                      FALSE, span_warn(World, sp, msg))

SpanWarnWithCode ==
    /\ Running
    /\ \E sp \in Spans, msg \in Msgs, code \in Codes :
          HandlerStep("span_warn_with_code",
                      set_span(Diagnostic_new_with_code("Warning", Some(code),
                                                        msg), sp),
                      FALSE, span_warn_with_code(World, sp, msg, code))

SpanBugNoPanic ==
    /\ Running
    /\ \E sp \in Spans, msg \in Msgs :
          HandlerStep("span_bug_no_panic",
                      set_span(Diagnostic_new("Bug", msg), sp),
                      FALSE, span_bug_no_panic(World, sp, msg))

SpanNoteWithoutError ==
    /\ Running
    /\ \E sp \in Spans, msg \in Msgs :
          HandlerStep("span_note_without_error",
                      set_span(Diagnostic_new("Note", msg), sp),
                      FALSE, span_note_without_error(World, sp, msg))

SpanBug ==
    /\ Running
    /\ \E sp \in Spans, msg \in Msgs :
          HandlerStep("span_bug", set_span(Diagnostic_new("Bug", msg), sp),
                      FALSE, span_bug(World, sp, msg))

Bug ==
    /\ Running
    /\ \E msg \in Msgs :
          HandlerStep("bug", Diagnostic_new("Bug", msg), FALSE,
                      bug(World, msg))

AbortIfErrors ==
    /\ Running
    /\ HandlerStep("abort_if_errors", NoDiag, FALSE, abort_if_errors(World))

AbortIfErrorsAndShouldAbort ==
    /\ Running
    /\ HandlerStep("abort_if_errors_and_should_abort", NoDiag, FALSE,
                   abort_if_errors_and_should_abort(World))

DelaySpanBug ==
    /\ Running
    /\ \E sp \in Spans, msg \in Msgs :
          HandlerStep("delay_span_bug",
                      set_span(Diagnostic_new("Bug", msg), sp), FALSE,
                      delay_span_bug(World, sp, msg))

DropHandler ==
    /\ handler_alive
    /\ ~builder.alive
    /\ LET w == HandlerInner_drop(World)
       IN  /\ inner' = w.inner
           /\ tracked' = w.tracked
           /\ unwind' = w.unwind
    /\ handler_alive' = FALSE
    /\ last' = [op |-> "drop_handler", d |-> NoDiag, flag |-> FALSE,
                pre |-> Snapshot]
    /\ UNCHANGED <<flags, builder, buffered_diagnostics, steps>>
    /\ UNCHANGED outside_session

StructDummy ==
    /\ Running
    /\ ~builder.alive
    /\ BuilderStep("struct_dummy", FALSE, struct_dummy(Ctx))

StructSpanWarn ==
    /\ Running
    /\ ~builder.alive
    /\ \E sp \in Spans, msg \in Msgs :
          BuilderStep("struct_span_warn", FALSE, struct_span_warn(Ctx, sp, msg))

StructSpanWarnWithCode ==
    /\ Running
    /\ ~builder.alive
    /\ \E sp \in Spans, msg \in Msgs, code \in Codes :
          BuilderStep("struct_span_warn_with_code", FALSE,
                      struct_span_warn_with_code(Ctx, sp, msg, code))

StructWarn ==
    /\ Running
    /\ ~builder.alive
    /\ \E msg \in Msgs :
          BuilderStep("struct_warn", FALSE, struct_warn(Ctx, msg))

StructSpanErr ==
    /\ Running
    /\ ~builder.alive
    /\ \E sp \in Spans, msg \in Msgs :
          BuilderStep("struct_span_err", FALSE, struct_span_err(Ctx, sp, msg))

StructErrWithCode ==
    /\ Running
    /\ ~builder.alive
    /\ \E msg \in Msgs, code \in Codes :
          BuilderStep("struct_err_with_code", FALSE,
                      struct_err_with_code(Ctx, msg, code))

SpanNoteDiag ==
    /\ Running
    /\ ~builder.alive
    /\ \E sp \in Spans, msg \in Msgs :
          BuilderStep("span_note_diag", FALSE, span_note_diag(Ctx, sp, msg))

Emit ==
    /\ Running
    /\ builder.alive
    /\ BuilderStep("emit", FALSE, DiagnosticBuilder_emit(Ctx))

Cancel ==
    /\ Running
    /\ builder.alive
    /\ BuilderStep("cancel", FALSE, DiagnosticBuilder_cancel(Ctx))

Buffer ==
    /\ Running
    /\ builder.alive
    /\ BuilderStep("buffer", FALSE, DiagnosticBuilder_buffer(Ctx))

DelayAsBug ==
    /\ Running
    /\ builder.alive
    /\ BuilderStep("delay_as_bug", FALSE, DiagnosticBuilder_delay_as_bug(Ctx))

EmitUnless ==
    /\ Running
    /\ builder.alive
    /\ \E delay \in BOOLEAN :
          BuilderStep("emit_unless", delay,
                      DiagnosticBuilder_emit_unless(Ctx, delay))

\* The builder goes out of scope, in normal control flow or during an unwind.
\* A destructor is not an operation the caller spends: it always runs.
DropBuilder ==
    /\ handler_alive
    /\ builder.alive
    /\ LET c == DiagnosticBuilder_drop(Ctx)
       IN  /\ inner' = c.w.inner
           /\ tracked' = c.w.tracked
           /\ unwind' = c.w.unwind
           /\ builder' = [alive |-> c.alive, diagnostic |-> c.db]
           /\ buffered_diagnostics' = c.v
    /\ last' = [op |-> "drop", d |-> builder.diagnostic, flag |-> FALSE,
                pre |-> Snapshot]
    /\ UNCHANGED <<flags, handler_alive, steps>>
    /\ UNCHANGED outside_session

Next ==
    \/ EmitDiagnostic
    \/ ForcePrintDiagnostic
    \/ ResetErrCount
    \/ SetContinueAfterError
    \/ SpanBug
    \/ Bug
    \/ AbortIfErrors
    \/ AbortIfErrorsAndShouldAbort
    \/ DelaySpanBug
    \/ DropHandler
    \/ StructDummy
    \/ StructSpanWarn
    \/ StructSpanErr
    \/ StructErrWithCode
    \/ SpanNoteDiag
    \/ Emit
    \/ Cancel
    \/ Buffer
    \/ DelayAsBug
    \/ EmitUnless
    \/ DropBuilder

Spec == Init /\ [][Next]_vars

\* A session that reports warnings: every way of building one, and what can
\* be done with the builder and with a finished diagnostic.
NextWarnings ==
    \/ StructSpanWarn
    \/ StructSpanWarnWithCode
    \/ StructWarn
    \/ Emit
    \/ Cancel
    \/ Buffer
    \/ DelayAsBug
    \/ DropBuilder
    \/ EmitDiagnostic
    \/ ForcePrintDiagnostic
    \/ ResetErrCount
    \/ DropHandler

SpecWarnings == Init /\ [][NextWarnings]_vars

\* A session that reports through the helpers that emit at once, and that
\* may switch continue_after_error and forget its errors in between.
NextSpan ==
    \/ SpanFatal
    \/ SpanFatalWithCode
    \/ SpanErr
    \/ SpanErrWithCode
    \/ SpanWarn
    \/ SpanWarnWithCode
    \/ SpanBugNoPanic
    \/ SpanNoteWithoutError
    \/ SetContinueAfterError
    \/ ResetErrCount

SpecSpan == Init /\ [][NextSpan]_vars

-----------------------------------------------------------------------------
(* Two threads sharing the Handler.  Handler::emit_diagnostic is            *)
(* self.inner.borrow_mut().emit_diagnostic(diagnostic): the guard of the    *)
(* Lock is taken, HandlerInner::emit_diagnostic runs statement by           *)
(* statement, and the guard is dropped when the call returns or unwinds.    *)

\* The diagnostics the worker threads emit.
ThreadInputs ==
    {Diagnostic_new("Error", "m1"), Diagnostic_new("Error", "m2"),
     Diagnostic_new("Warning", "m1")}

\* Mutant of lock_is_free: borrow_mut never waits.
lock_never_waits(l) == TRUE

\* Lock::borrow_mut waits until no other guard is alive
lock_is_free(l) == l = NoThread

\* the state HandlerInner's methods see from inside a worker thread
ThreadWorld == [inner |-> inner, tracked |-> tracked, unwind |-> "none"]

\* thread t moves to position pc
GoTo(t, pc) == threads' = [threads EXCEPT ![t].pc = pc]

InitThreads ==
    /\ flags \in {f \in HandlerFlags : ~f.dont_buffer_diagnostics
                                        /\ ~f.report_delayed_bugs}
    /\ inner = with_emitter_and_flags
    /\ tracked = <<>>
    /\ unwind = "none"
    /\ builder = [alive |-> FALSE, diagnostic |-> NoDiag]
    /\ buffered_diagnostics = <<>>
    /\ handler_alive = TRUE
    /\ steps = 0
    /\ lock = NoThread
    /\ threads = [t \in Threads |-> Idle]
    /\ driver = NoDriver
    /\ splice = NoSplice
    /\ typeck = NoTypeck
    /\ last = [op |-> "with_emitter_and_flags", d |-> NoDiag, flag |-> FALSE,
               pre |-> [inner |-> with_emitter_and_flags, tracked |-> <<>>,
                        unwind |-> "none",
                        builder |-> [alive |-> FALSE, diagnostic |-> NoDiag],
                        v |-> <<>>]]

\* what the worker threads leave alone
outside_threads ==
    <<flags, unwind, builder, buffered_diagnostics, handler_alive, steps, last,
      driver, splice, typeck>>

\* thread t calls handler.emit_diagnostic(&d)
ThreadCall(t) ==
    /\ threads[t].pc = "idle"
    /\ Len(threads[t].done) < MaxCalls
    /\ \E d \in ThreadInputs :
          threads' = [threads EXCEPT ![t].pc = "borrow_mut", ![t].d = d]
    /\ UNCHANGED <<inner, tracked, lock>>
    /\ UNCHANGED outside_threads

\* self.inner.borrow_mut()
ThreadBorrowMut(t) ==
    /\ threads[t].pc = "borrow_mut"
    /\ lock_is_free(lock)
    /\ lock' = t
    /\ GoTo(t, "filter")
    /\ UNCHANGED <<inner, tracked>>
    /\ UNCHANGED outside_threads

\* lines 675-681: the two early returns
ThreadFilter(t) ==
    /\ threads[t].pc = "filter"
    /\ LET d == threads[t].d
       IN  IF cancelled(d) \/ (d.level = "Warning" /\ ~flags.can_emit_warnings)
           THEN GoTo(t, "drop_guard")
           ELSE GoTo(t, "track")
    /\ UNCHANGED <<inner, tracked, lock>>
    /\ UNCHANGED outside_threads

\* lines 683-689: the tracking hook and the code set
ThreadTrack(t) ==
    /\ threads[t].pc = "track"
    /\ LET w == track_and_record(ThreadWorld, threads[t].d)
       IN  inner' = w.inner /\ tracked' = w.tracked
    /\ GoTo(t, "insert")
    /\ UNCHANGED lock
    /\ UNCHANGED outside_threads

\* line 700: self.emitted_diagnostics.insert(diagnostic_hash)
ThreadInsert(t) ==
    /\ threads[t].pc = "insert"
    /\ LET h     == hash(threads[t].d)
           fresh == h \notin inner.emitted_diagnostics
       IN  /\ inner' = [inner EXCEPT !.emitted_diagnostics = @ \cup {h}]
           /\ threads' = [threads EXCEPT
                             ![t].fresh = fresh,
                             ![t].pc = IF fresh THEN "emitter" ELSE "bump"]
    /\ UNCHANGED <<tracked, lock>>
    /\ UNCHANGED outside_threads

\* lines 701-704: the emitter and the deduplicated counter
ThreadEmitter(t) ==
    /\ threads[t].pc = "emitter"
    /\ LET d == threads[t].d
       IN  inner' = [inner EXCEPT
                        !.emitter = Append(@, d),
                        !.deduplicated_err_count =
                             IF is_error(d) THEN @ + 1 ELSE @]
    /\ GoTo(t, "bump")
    /\ UNCHANGED <<tracked, lock>>
    /\ UNCHANGED outside_threads

\* lines 706-708: the raw counter and the treat-err-as-bug panic
ThreadBump(t) ==
    /\ threads[t].pc = "bump"
    /\ LET w == IF is_error(threads[t].d) THEN bump_err_count(ThreadWorld)
                ELSE ThreadWorld
       IN  /\ inner' = w.inner
           /\ threads' = [threads EXCEPT ![t].pc = "drop_guard",
                                         ![t].unwind = w.unwind]
    /\ UNCHANGED <<tracked, lock>>
    /\ UNCHANGED outside_threads

\* the guard goes out of scope, on return or while the panic unwinds
ThreadDropGuard(t) ==
    /\ threads[t].pc = "drop_guard"
    /\ lock' = NoThread
    /\ threads' = [threads EXCEPT
                      ![t].pc = IF threads[t].unwind = "none" THEN "idle"
                                ELSE "panicked",
                      ![t].done = Append(@, threads[t].d)]
    /\ UNCHANGED <<inner, tracked>>
    /\ UNCHANGED outside_threads

NextThreads ==
    \E t \in Threads :
        \/ ThreadCall(t)
        \/ ThreadBorrowMut(t)
        \/ ThreadFilter(t)
        \/ ThreadTrack(t)
        \/ ThreadInsert(t)
        \/ ThreadEmitter(t)
        \/ ThreadBump(t)
        \/ ThreadDropGuard(t)

SpecThreads == InitThreads /\ [][NextThreads]_vars

-----------------------------------------------------------------------------
(* A session that counts: errors with error codes are emitted, some of     *)
(* them twice, and the driver ends the session with print_error_count.     *)

Registries == {ErrorCodes, ErrorCodes \ {ErrorCode(1)}, {}}

InitCount ==
    /\ flags \in {f \in HandlerFlags : /\ f.can_emit_warnings
                                        /\ ~f.dont_buffer_diagnostics
                                        /\ ~f.report_delayed_bugs}
    /\ driver \in [registry : Registries, should_show_explain : BOOLEAN]
    /\ splice = NoSplice
    /\ typeck = NoTypeck
    /\ inner = with_emitter_and_flags
    /\ tracked = <<>>
    /\ unwind = "none"
    /\ builder = [alive |-> FALSE, diagnostic |-> NoDiag]
    /\ buffered_diagnostics = <<>>
    /\ handler_alive = TRUE
    /\ steps = 0
    /\ lock = NoThread
    /\ threads = [t \in Threads |-> Idle]
    /\ last = [op |-> "with_emitter_and_flags", d |-> NoDiag, flag |-> FALSE,
               pre |-> [inner |-> with_emitter_and_flags, tracked |-> <<>>,
                        unwind |-> "none",
                        builder |-> [alive |-> FALSE, diagnostic |-> NoDiag],
                        v |-> <<>>]]

Counting ==
    /\ unwind = "none"
    /\ steps < MaxEmits
    /\ last.op # "print_error_count"

\* the error codes recorded so far
recorded == inner.emitted_diagnostic_codes \cap ErrorCodes

coded_error(k) == set_code(Diagnostic_new("Error", "m1"), ErrorCode(k))

\* an error with the next error code
EmitCoded ==
    /\ Counting
    /\ Cardinality(recorded) < MaxCodes
    /\ LET d == coded_error(Cardinality(recorded) + 1)
       IN  HandlerStep("emit_diagnostic", d, FALSE, emit_diagnostic(World, d))

\* the error emitted last, once more
EmitCodedAgain ==
    /\ Counting
    /\ recorded # {}
    /\ LET d == coded_error(Cardinality(recorded))
       IN  HandlerStep("emit_diagnostic", d, FALSE, emit_diagnostic(World, d))

\* a warning that carries a lint id, at the start of the session
EmitLint ==
    /\ Counting
    /\ steps = 0
    /\ \E id \in LintIds :
          LET d == set_code(Diagnostic_new("Warning", "m1"), id)
          IN  HandlerStep("emit_diagnostic", d, FALSE,
                          emit_diagnostic(World, d))

\* the driver prints the count, at most twice; flag marks the second time
PrintErrorCount ==
    /\ unwind = "none"
    /\ ~(last.op = "print_error_count" /\ last.flag)
    /\ HandlerStep("print_error_count", NoDiag, last.op = "print_error_count",
                   print_error_count(World, driver.registry,
                                     driver.should_show_explain))

NextCount ==
    \/ EmitCoded
    \/ EmitCodedAgain
    \/ EmitLint
    \/ PrintErrorCount

SpecCount == InitCount /\ [][NextCount]_vars

-----------------------------------------------------------------------------
(* CodeSuggestion::splice_lines.  A string is a sequence of characters, a   *)
(* character takes one or two bytes; positions in the file are byte         *)
(* offsets, columns are character counts.                                   *)

\* the source file: its lines, without their line ends; "e'" is the
\* character e with an acute accent, two bytes long
Text == <<<<"a", "b">>, <<"e'", "c">>, <<"d">>>>

Lines == SubSeq(Text, 1, MaxLines)

\* char::len_utf8
len_utf8(ch) == IF ch = "e'" THEN 2 ELSE 1

\* str::len: the length in bytes
RECURSIVE len(_)
len(s) == IF s = <<>> THEN 0 ELSE len_utf8(Head(s)) + len(Tail(s))

\* the byte offset at which line number i begins
RECURSIVE line_start(_)
line_start(i) ==
    IF i = 1 THEN 0 ELSE line_start(i - 1) + len(Lines[i - 1]) + 1

\* s.char_indices().map(|(i, _)| i).nth(k)
char_index(s, k) ==
    IF k < Len(s) THEN Some(len(SubSeq(s, 1, k))) ELSE None

is_char_boundary(s, b) == \E k \in 0..Len(s) : len(SubSeq(s, 1, k)) = b

\* &s[lo..hi], lo and hi byte offsets on character boundaries
slice(s, lo, hi) ==
    LET from == CHOOSE k \in 0..Len(s) : len(SubSeq(s, 1, k)) = lo
        to   == CHOOSE k \in 0..Len(s) : len(SubSeq(s, 1, k)) = hi
    IN  SubSeq(s, from + 1, to)

\* SourceMapper::lookup_char_pos: line number from 1, column in characters
lookup_char_pos(pos) ==
    LET line == CHOOSE i \in 1..Len(Lines) :
                    /\ line_start(i) <= pos
                    /\ pos <= line_start(i) + len(Lines[i])
        col  == CHOOSE k \in 0..Len(Lines[line]) :
                    len(SubSeq(Lines[line], 1, k)) = pos - line_start(line)
    IN  [line |-> line, col |-> col]

\* SourceFile::get_line: the line with index idx, from 0
get_line(idx) == IF idx < Len(Lines) THEN Some(Lines[idx + 1]) ELSE None

ends_with_newline(buf) == buf # <<>> /\ buf[Len(buf)] = "\n"

push_trailing(buf, line_opt, lo, hi_opt) ==
    IF line_opt = None THEN buf
    ELSE LET line   == CHOOSE l \in line_opt : TRUE
             lo_idx == char_index(line, lo.col)
             hi_idx == UNION {char_index(line, h.col) : h \in hi_opt}
             buf1   ==
                 IF lo_idx = None THEN buf
                 ELSE LET lo_b == CHOOSE b \in lo_idx : TRUE
                      IN  IF hi_idx # None
                          THEN LET hi_b == CHOOSE b \in hi_idx : TRUE
                               IN  IF hi_b > lo_b
                                   THEN buf \o slice(line, lo_b, hi_b)
                                   ELSE buf
                          ELSE buf \o slice(line, lo_b, len(line))
         IN  IF hi_opt = None THEN Append(buf1, "\n") ELSE buf1

\* substitution.parts.sort_by_key(|part| part.span.lo()): a stable sort
RECURSIVE sort_by_key(_)
sort_by_key(parts) ==
    IF parts = <<>> THEN <<>>
    ELSE LET i == CHOOSE i \in DOMAIN parts :
                      /\ \A j \in DOMAIN parts : parts[i].lo <= parts[j].lo
                      /\ \A j \in 1..(i - 1) : parts[j].lo # parts[i].lo
         IN  <<parts[i]>> \o sort_by_key(SubSeq(parts, 1, i - 1)
                                           \o SubSeq(parts, i + 1, Len(parts)))

\* lines 218-223: the whole lines with index from..(to - 1)
RECURSIVE push_lines(_, _, _)
push_lines(buf, from, to) ==
    IF from >= to THEN buf
    ELSE push_lines(IF get_line(from) = None THEN buf
                    ELSE buf \o (CHOOSE l \in get_line(from) : TRUE) \o <<"\n">>,
                    from + 1, to)

\* lines 224-227: the line of the part up to its column, cut by bytes
push_leading(st, cur_lo) ==
    LET cur_line_opt == get_line(cur_lo.line - 1)
    IN  IF cur_line_opt = None THEN st
        ELSE LET cur_line == CHOOSE l \in cur_line_opt : TRUE
                 end == IF len(cur_line) < cur_lo.col THEN len(cur_line)
                        ELSE cur_lo.col
             IN  IF is_char_boundary(cur_line, end)
                 THEN [st EXCEPT !.buf = @ \o slice(cur_line, 0, end)]
                 ELSE [st EXCEPT !.panic = TRUE]

\* lines 211-232: one turn of the loop over the parts
splice_part(st, part) ==
    LET cur_lo == lookup_char_pos(part.lo)
        st1 == IF st.prev_hi.line = cur_lo.line
               THEN [st EXCEPT !.buf = push_trailing(@, st.prev_line,
                                                     st.prev_hi, Some(cur_lo))]
               ELSE push_leading(
                        [st EXCEPT !.buf =
                            push_lines(push_trailing(@, st.prev_line,
                                                     st.prev_hi, None),
                                       st.prev_hi.line, cur_lo.line - 1)],
                        cur_lo)
        prev_hi == lookup_char_pos(part.hi)
    IN  IF st1.panic THEN st1
        ELSE [st1 EXCEPT !.buf = @ \o part.snippet,
                         !.prev_hi = prev_hi,
                         !.prev_line = get_line(prev_hi.line - 1)]

RECURSIVE splice_parts(_, _)
splice_parts(st, parts) ==
    IF parts = <<>> \/ st.panic THEN st
    ELSE splice_parts(splice_part(st, Head(parts)), Tail(parts))

\* lines 238-240
RECURSIVE pop_newlines(_)
pop_newlines(buf) ==
    IF ends_with_newline(buf) THEN pop_newlines(SubSeq(buf, 1, Len(buf) - 1))
    ELSE buf

\* the least of a non-empty set of positions
min(S) == CHOOSE x \in S : \A y \in S : x <= y

\* lines 186-232: the parts sorted, then the loop over them
splice_loop(unsorted) ==
    LET parts == sort_by_key(unsorted)
        lo == min({parts[i].lo : i \in DOMAIN parts})
        hi == min({parts[i].hi : i \in DOMAIN parts})
        line_index == lookup_char_pos(lo).line - 1
        st0 == [buf |-> <<>>,
                prev_hi |-> [lookup_char_pos(lo) EXCEPT !.col = 0],
                prev_line |-> get_line(line_index),
                panic |-> FALSE]
    IN  splice_parts(st0, parts)

\* splice_lines for one substitution: the assembled text, or a panic
splice_lines(unsorted) ==
    LET st1 == splice_loop(unsorted)
        st2 == IF ~ends_with_newline(st1.buf)
               THEN [st1 EXCEPT !.buf = push_trailing(@, st1.prev_line,
                                                      st1.prev_hi, None)]
               ELSE st1
    IN  IF st1.panic THEN [panic |-> TRUE, buf |-> <<>>]
        ELSE [panic |-> FALSE, buf |-> pop_newlines(st2.buf)]

\* the byte offsets of the file that fall between characters
Positions ==
    {p \in 0..(line_start(Len(Lines)) + len(Lines[Len(Lines)])) :
        \E i \in 1..Len(Lines) :
            /\ line_start(i) <= p
            /\ is_char_boundary(Lines[i], p - line_start(i))}

Snippets == {<<>>, <<"X">>, <<"X", "\n">>}

SubstitutionPart ==
    {p \in [lo : Positions, hi : Positions, snippet : Snippets] : p.lo <= p.hi}

\* the ranges of two parts are disjoint and do not begin together
disjoint(p, q) ==
    /\ p.lo # q.lo
    /\ p.hi <= q.lo \/ q.hi <= p.lo

\* the substitutions of at most n pairwise disjoint parts, in any order
RECURSIVE SubstitutionsOf(_)
SubstitutionsOf(n) ==
    IF n = 1 THEN {<<p>> : p \in SubstitutionPart}
    ELSE LET shorter == SubstitutionsOf(n - 1)
         IN  shorter \cup
             UNION {{Append(parts, p) :
                        p \in {q \in SubstitutionPart :
                                  \A i \in DOMAIN parts :
                                      disjoint(parts[i], q)}} :
                    parts \in {s \in shorter : Len(s) = n - 1}}

\* no diagnostic session is in progress
NoSession ==
    /\ flags = [can_emit_warnings |-> FALSE, treat_err_as_bug |-> None,
                dont_buffer_diagnostics |-> FALSE,
                report_delayed_bugs |-> FALSE]
    /\ inner = with_emitter_and_flags
    /\ tracked = <<>>
    /\ unwind = "none"
    /\ builder = [alive |-> FALSE, diagnostic |-> NoDiag]
    /\ buffered_diagnostics = <<>>
    /\ handler_alive = TRUE
    /\ steps = 0
    /\ lock = NoThread
    /\ threads = [t \in Threads |-> Idle]
    /\ driver = NoDriver
    /\ last = [op |-> "with_emitter_and_flags", d |-> NoDiag, flag |-> FALSE,
               pre |-> [inner |-> with_emitter_and_flags, tracked |-> <<>>,
                        unwind |-> "none",
                        builder |-> [alive |-> FALSE, diagnostic |-> NoDiag],
                        v |-> <<>>]]

InitSplice ==
    /\ NoSession
    /\ splice \in [pc : {"called"}, parts : SubstitutionsOf(MaxParts),
                    buf : {<<>>}]
    /\ typeck = NoTypeck

\* what splice_lines leaves alone
outside_splice ==
    <<flags, inner, tracked, unwind, builder, buffered_diagnostics,
      handler_alive, steps, last, lock, threads, driver, typeck>>

SpliceLines ==
    /\ splice.pc = "called"
    /\ LET r == splice_lines(splice.parts)
       IN  splice' = [splice EXCEPT
                         !.pc = IF r.panic THEN "panicked" ELSE "returned",
                         !.buf = r.buf]
    /\ UNCHANGED outside_splice

NextSplice == SpliceLines

SpecSplice == InitSplice /\ [][NextSplice]_vars

-----------------------------------------------------------------------------
(* The pattern checker, librustc_typeck/check/pat.rs.  A pattern node is    *)
(* identified by its path from the root of the pattern (its HirId).  The    *)
(* inference context is a substitution of type variables; regions are left *)
(* out, so two reference types differ only in mutability and pointee.      *)

\* table.insert(key, value)
insert(table, key, value) == (key :> value) @@ table

\* InferCtxt::shallow_resolve
RECURSIVE shallow_resolve(_, _)
shallow_resolve(subst, t) ==
    IF t.k = "infer" /\ t.id \in DOMAIN subst
    THEN shallow_resolve(subst, subst[t.id])
    ELSE t

\* InferCtxt::resolve_vars_if_possible
RECURSIVE resolve_vars_if_possible(_, _)
resolve_vars_if_possible(subst, t) ==
    LET r == shallow_resolve(subst, t)
    IN  CASE r.k \in {"ref", "box", "array", "slice"} ->
                [r EXCEPT !.t = resolve_vars_if_possible(subst, @)]
          [] r.k = "tuple" ->
                [r EXCEPT !.ts = [i \in DOMAIN r.ts |->
                                     resolve_vars_if_possible(subst, r.ts[i])]]
          [] OTHER -> r

\* TypeFoldable::references_error
RECURSIVE references_error(_)
references_error(t) ==
    CASE t.k = "err" -> TRUE
      [] t.k \in {"ref", "box", "array", "slice"} -> references_error(t.t)
      [] t.k = "tuple" -> \E i \in DOMAIN t.ts : references_error(t.ts[i])
      [] OTHER -> FALSE

\* the unifier: the substitution extended so that a and b are equal, or
\* a mismatch that leaves the substitution as it was.  The error type
\* relates to every type.
RECURSIVE unify(_, _, _)
unify(subst, a, b) ==
    LET x == shallow_resolve(subst, a)
        y == shallow_resolve(subst, b)
        mismatch == [ok |-> FALSE, subst |-> subst]
        RECURSIVE unify_all(_, _, _)
        unify_all(s, xs, ys) ==
            IF xs = <<>> THEN [ok |-> TRUE, subst |-> s]
            ELSE LET r == unify(s, Head(xs), Head(ys))
                 IN  IF r.ok THEN unify_all(r.subst, Tail(xs), Tail(ys))
                     ELSE mismatch
    IN  CASE x = y -> [ok |-> TRUE, subst |-> subst]
          [] x.k = "infer" -> [ok |-> TRUE, subst |-> insert(subst, x.id, y)]
          [] y.k = "infer" -> [ok |-> TRUE, subst |-> insert(subst, y.id, x)]
          [] x.k = "err" \/ y.k = "err" -> [ok |-> TRUE, subst |-> subst]
          [] x.k = "ref" /\ y.k = "ref" /\ x.m = y.m ->
                LET r == unify(subst, x.t, y.t)
                IN  IF r.ok THEN r ELSE mismatch
          [] x.k = "box" /\ y.k = "box" ->
                LET r == unify(subst, x.t, y.t)
                IN  IF r.ok THEN r ELSE mismatch
          [] x.k = "slice" /\ y.k = "slice" ->
                LET r == unify(subst, x.t, y.t)
                IN  IF r.ok THEN r ELSE mismatch
          [] x.k = "array" /\ y.k = "array" /\ x.size = y.size ->
                LET r == unify(subst, x.t, y.t)
                IN  IF r.ok THEN r ELSE mismatch
          [] x.k = "tuple" /\ y.k = "tuple" /\ Len(x.ts) = Len(y.ts) ->
                unify_all(subst, x.ts, y.ts)
          [] OTHER -> mismatch

\* a span inside the pattern node id: the whole pattern, an end point of a
\* range, or the k-th field of a struct pattern
span_in(id, part, k) == [node |-> id, part |-> part, k |-> k]

\* pat.span: the span of the pattern node id
span_of(id) == span_in(id, "pat", 0)

\* struct_span_err!(..) with its notes, then err.emit(): a diagnostic with
\* this error code, primary span, message arguments and notes
emit_with(cx, code, span, args, notes) ==
    IF cx.panicked THEN cx
    ELSE [cx EXCEPT !.diags = Append(@, [code |-> code, span |-> span,
                                         args |-> args, notes |-> notes])]

\* err.emit() of a diagnostic whose message has no arguments
emit(cx, code, span, notes) == emit_with(cx, code, span, <<>>, notes)

\* FnCtxt::demand_eqtype_diag: the context, and whether a diagnostic of a
\* mismatch is handed back; demands keeps the demands made
demand_eqtype_diag(cx, span, expected, actual) ==
    LET r == unify(cx.subst, expected, actual)
    IN  IF cx.panicked THEN [cx |-> cx, err |-> FALSE]
        ELSE [cx |-> [cx EXCEPT !.subst = r.subst,
                                !.demands = Append(@, [span |-> span,
                                                       expected |-> expected,
                                                       actual |-> actual])],
              err |-> ~r.ok]

\* FnCtxt::demand_eqtype_pat, demand_suptype: the mismatch is emitted
demand_eqtype_pat(cx, span, expected, actual) ==
    LET r == demand_eqtype_diag(cx, span, expected, actual)
    IN  IF r.err THEN emit(r.cx, "E0308", span, <<>>) ELSE r.cx

\* FnCtxt::next_ty_var
next_ty_var(cx) == Infer(<<1, cx.next_ty_var>>)

fresh(cx) == [cx EXCEPT !.next_ty_var = @ + 1]

\* FnCtxt::new_ref_ty, the fresh region left out
new_ref_ty(mutbl, ty) == Ref(mutbl, ty)

\* FnCtxt::write_ty
write_ty(cx, id, ty) == [cx EXCEPT !.node_types = insert(@, id, ty)]

\* a default binding mode that follows every layer
peeled_follows_layer(def_bm, inner_mutability) ==
    BindByReference(inner_mutability)

\* lines 263-272: the default binding mode after one more layer is peeled
peeled_binding_mode(def_bm, inner_mutability) ==
    BindByReference(
        CASE def_bm.by = "value" -> inner_mutability
          [] def_bm = BindByReference(MutMutable) -> inner_mutability
          [] def_bm = BindByReference(MutImmutable) -> MutImmutable)

\* lines 255-273: the loop of peel_off_references
RECURSIVE peel(_, _, _)
peel(expected, def_bm, pat_adjustments) ==
    IF expected.k = "ref"
    THEN peel(expected.t, peeled_binding_mode(def_bm, expected.m),
              Append(pat_adjustments, expected))
    ELSE [expected |-> expected, def_bm |-> def_bm,
          pat_adjustments |-> pat_adjustments]

peel_off_references(cx, id, expected, def_bm) ==
    LET r == peel(resolve_vars_if_possible(cx.subst, expected), def_bm, <<>>)
    IN  [expected |-> r.expected, def_bm |-> r.def_bm,
         cx |-> IF Len(r.pat_adjustments) > 0
                THEN [cx EXCEPT !.pat_adjustments =
                                     insert(@, id, r.pat_adjustments)]
                ELSE cx]

\* FnCtxt::structurally_resolved_type: an unresolved variable is an error,
\* reported unless errors have been reported already
structurally_resolved_type(cx, span, ty) ==
    LET r == resolve_vars_if_possible(cx.subst, ty)
    IN  IF r.k # "infer" THEN [cx |-> cx, ty |-> r]
        ELSE [cx |-> [(IF cx.diags = <<>>
                       THEN emit(cx, "E0282", span, <<>>) ELSE cx)
                        EXCEPT !.subst = insert(@, r.id, Error)],
              ty |-> Error]

\* BindingMode::convert
convert(ba) ==
    CASE ba = "Unannotated" -> BindByValue(MutImmutable)
      [] ba = "Mutable" -> BindByValue(MutMutable)
      [] ba = "Ref" -> BindByReference(MutImmutable)
      [] ba = "RefMut" -> BindByReference(MutMutable)

\* the declared type of the local a binding introduces: a type variable
\* of its own, made when the locals were gathered
local_ty(id) == Infer(<<0>> \o id)

\* the nodes of a pattern: each with its HirId
RECURSIVE nodes(_, _)
nodes(pat, id) ==
    {[id |-> id, pat |-> pat]} \cup
    UNION {nodes(pat.subs[i], Append(id, i)) : i \in DOMAIN pat.subs}

\* whether id comes before other in the pattern, read from left to right
RECURSIVE before(_, _)
before(id, other) ==
    CASE id = <<>> -> other # <<>>
      [] other = <<>> -> FALSE
      [] Head(id) # Head(other) -> Head(id) < Head(other)
      [] OTHER -> before(Tail(id), Tail(other))

\* the canonical id of a variable: the first binding of its name
var_id(root, name) ==
    LET bound == {n.id : n \in {n \in nodes(root, <<>>) :
                                  /\ n.pat.kind = "Binding"
                                  /\ n.pat.attr.name = name}}
    IN  CHOOSE id \in bound : \A other \in bound \ {id} : before(id, other)

is_non_ref_pat(pat) ==
    CASE pat.kind \in {"Struct", "TupleStruct", "Or", "Tuple", "Box", "Range",
                       "Slice"} -> TRUE
      [] pat.kind = "Lit" -> pat.attr.k # "ref"
      [] pat.kind \in {"Wild", "Binding", "Ref"} -> FALSE

\* a default binding mode that an explicit reference pattern leaves as it is
calc_without_reset(cx, pat, id, expected, def_bm, is_nrp) ==
    IF is_nrp THEN peel_off_references(cx, id, expected, def_bm)
    ELSE [expected |-> expected, def_bm |-> def_bm, cx |-> cx]

calc_default_binding_mode(cx, pat, id, expected, def_bm, is_nrp) ==
    IF is_nrp THEN peel_off_references(cx, id, expected, def_bm)
    ELSE [expected |-> expected,
          def_bm |-> IF pat.kind = "Ref" THEN BindByValue(MutImmutable)
                     ELSE def_bm,
          cx |-> cx]

\* the literal's type was computed by is_non_ref_pat: pat.attr
check_pat_lit(cx, pat, id, expected) ==
    LET r == demand_eqtype_diag(cx, span_of(id), expected, pat.attr)
    IN  [cx |-> IF r.err THEN emit(r.cx, "E0308", span_of(id), <<>>)
                ELSE r.cx,
         ty |-> pat.attr]

\* every type taken for one a range may have
any_type(ty) == TRUE

numeric_or_char(ty) ==
    \/ ty = Prim("i32")
    \/ ty = Prim("char")
    \/ references_error(ty)

\* the types of the end points were computed by check_expr: pat.attr
check_pat_range(cx, pat, id, expected) ==
    LET lhs_ty == pat.attr[1]
        rhs_ty == pat.attr[2]
        lhs_compat == numeric_or_char(lhs_ty)
        rhs_compat == numeric_or_char(rhs_ty)
        span == CASE ~lhs_compat /\ ~rhs_compat -> span_of(id)
                  [] ~lhs_compat -> span_in(id, "begin", 0)
                  [] OTHER -> span_in(id, "end", 0)
    IN  IF ~lhs_compat \/ ~rhs_compat
        THEN [cx |-> emit(cx, "E0029", span,
                          <<<<"start type", lhs_ty>>, <<"end type", rhs_ty>>>>),
              ty |-> None]
        ELSE LET common_type == resolve_vars_if_possible(cx.subst, lhs_ty)
                 cx1 == demand_eqtype_pat(cx, span_of(id), expected, lhs_ty)
                 cx2 == demand_eqtype_pat(cx1, span_of(id), expected, rhs_ty)
             IN  [cx |-> cx2, ty |-> Some(common_type)]

\* Ty::builtin_deref(true)
builtin_deref(ty) == IF ty.k \in {"ref", "box"} THEN Some(ty.t) ELSE None

check_dereferencable(cx, span, expected, inner_pat) ==
    LET mt == builtin_deref(shallow_resolve(cx.subst, expected))
    IN  IF inner_pat.kind = "Binding" /\ mt # None
           /\ (CHOOSE t \in mt : TRUE).k = "dynamic"
        THEN [cx |-> emit(cx, "E0033", span, <<>>), ok |-> FALSE]
        ELSE [cx |-> cx, ok |-> TRUE]

\* the position among expected_len of the k-th of the actual elements
\* when a pattern has its .. at ddpos: EnumerateAndAdjustIterator
enumerate_and_adjust(k, actual_len, expected_len, ddpos) ==
    IF ddpos # None /\ k > (CHOOSE p \in ddpos : TRUE)
    THEN k + (expected_len - actual_len)
    ELSE k

RECURSIVE check_pat(_, _, _, _, _)

\* check_pat on the subpatterns from the k-th on, the i-th against tys[i]
RECURSIVE check_subpats(_, _, _, _, _, _)
check_subpats(cx, pat, id, k, tys, def_bm) ==
    IF k > Len(pat.subs) THEN cx
    ELSE check_subpats(
             check_pat(cx, pat.subs[k], Append(id, k), tys[k], def_bm),
             pat, id, k + 1, tys, def_bm)

\* field names, as their characters
foo == <<"f", "o", "o">>

bar == <<"b", "a", "r">>

fop == <<"f", "o", "p">>

qux == <<"q", "u", "x">>

\* the declarations a path may resolve to: a struct of this crate, a
\* non-exhaustive struct of another crate, and a union
Variants ==
    [S |-> [descr |-> "struct", ctor_kind |-> "Fictive",
            fields |-> <<[ident |-> foo, ty |-> Prim("i32")],
                         [ident |-> bar, ty |-> Prim("char")]>>,
            non_exhaustive |-> FALSE, local |-> TRUE, recovered |-> FALSE],
     N |-> [descr |-> "struct", ctor_kind |-> "Fictive",
            fields |-> <<[ident |-> foo, ty |-> Prim("i32")]>>,
            non_exhaustive |-> TRUE, local |-> FALSE, recovered |-> FALSE],
     U |-> [descr |-> "union", ctor_kind |-> "Fictive",
            fields |-> <<[ident |-> foo, ty |-> Prim("i32")],
                         [ident |-> bar, ty |-> Prim("char")]>>,
            non_exhaustive |-> FALSE, local |-> TRUE, recovered |-> FALSE],
     P |-> [descr |-> "struct", ctor_kind |-> "Fn",
            fields |-> <<[ident |-> <<"0">>, ty |-> Prim("i32")],
                         [ident |-> <<"1">>, ty |-> Prim("char")]>>,
            non_exhaustive |-> FALSE, local |-> TRUE, recovered |-> FALSE],
     T |-> [descr |-> "struct", ctor_kind |-> "Fn",
            fields |-> <<[ident |-> <<"0">>, ty |-> Tuple(<<>>)]>>,
            non_exhaustive |-> FALSE, local |-> TRUE, recovered |-> FALSE]]

\* FnCtxt::resolve_ty_and_res_ufcs, then instantiate_value_path: what a
\* path in a tuple struct pattern resolves to, and whether its type is a
\* function type
resolve_ty_and_res_ufcs(qpath) ==
    CASE qpath \in {"P", "T"} -> [res |-> "Ctor", is_fn |-> TRUE]
      [] qpath = "method" -> [res |-> "Method", is_fn |-> TRUE]
      [] qpath = "CONST" -> [res |-> "AssocConst", is_fn |-> FALSE]
      [] OTHER -> [res |-> "Err", is_fn |-> FALSE]

\* FnCtxt::check_struct_path: the variant and the type the path names, or
\* nothing for a path that did not resolve
check_struct_path(qpath) ==
    IF qpath \in DOMAIN Variants
    THEN Some([variant |-> Variants[qpath], ty |-> Adt(qpath)])
    ELSE None

\* syntax::util::lev_distance::lev_distance
RECURSIVE lev_distance(_, _)
lev_distance(a, b) ==
    CASE a = <<>> -> Len(b)
      [] b = <<>> -> Len(a)
      [] OTHER ->
            min({lev_distance(Tail(a), Tail(b))
                     + (IF Head(a) = Head(b) THEN 0 ELSE 1),
                 lev_distance(Tail(a), b) + 1,
                 lev_distance(a, Tail(b)) + 1})

\* find_best_match_for_name(input, lookup, None): the first of the names
\* nearest to lookup, among those within a third of its length
find_best_match_for_name(input, lookup) ==
    LET max_dist == (IF Len(lookup) > 3 THEN Len(lookup) ELSE 3) \div 3
        near == {i \in DOMAIN input :
                    lev_distance(lookup, input[i]) <= max_dist}
    IN  IF near = {} THEN None
        ELSE Some(input[CHOOSE i \in near :
                     \A j \in near :
                         \/ lev_distance(lookup, input[i])
                                < lev_distance(lookup, input[j])
                         \/ /\ lev_distance(lookup, input[i])
                                  = lev_distance(lookup, input[j])
                            /\ i <= j])

error_field_already_bound(cx, span, ident, other_field) ==
    emit_with(cx, "E0025", span, <<ident>>, <<>>)

\* the context after the diagnostic, and the unmentioned fields without the
\* one suggested
error_inexistent_fields(cx, inexistent_fields, unmentioned_fields) ==
    LET ident == inexistent_fields[Len(inexistent_fields)]
        suggested_name ==
            IF Len(inexistent_fields) = 1
            THEN find_best_match_for_name(unmentioned_fields, ident.name)
            ELSE None
    IN  [cx |-> emit_with(cx, "E0026", inexistent_fields[1].span,
                          [i \in DOMAIN inexistent_fields |->
                              inexistent_fields[i].name],
                          [i \in 1..Cardinality(suggested_name) |->
                              <<"a field with a similar name exists",
                                CHOOSE x \in suggested_name : TRUE>>]),
         unmentioned_fields |->
             SelectSeq(unmentioned_fields,
                       LAMBDA x : x \notin suggested_name)]

\* one diagnostic for each field that is not mentioned
error_for_each_field(cx, span, unmentioned_fields, variant) ==
    LET one == emit_with(cx, "E0027", span, <<unmentioned_fields[1]>>, <<>>)
    IN  IF Len(unmentioned_fields) = 1 THEN one
        ELSE emit_with(one, "E0027", span, Tail(unmentioned_fields), <<>>)

error_unmentioned_fields(cx, span, unmentioned_fields, variant) ==
    emit_with(cx, "E0027", span, unmentioned_fields,
              IF variant.ctor_kind = "Fn"
              THEN <<<<"trying to match a tuple variant with a struct variant pattern",
                       <<>>>>>>
              ELSE <<>>)

\* the loop over the fields of a struct pattern, from the k-th field on
RECURSIVE check_fields(_, _, _, _, _, _)
check_fields(st, pat, id, variant, def_bm, k) ==
    IF k > Len(pat.attr.fields) THEN st
    ELSE LET span == span_in(id, "field", k)
             ident == pat.attr.fields[k]
             occupied == ident \in DOMAIN st.used_fields
             field_map == {i \in DOMAIN variant.fields :
                              variant.fields[i].ident = ident}
             st1 ==
                 CASE occupied ->
                         [st EXCEPT
                             !.cx = error_field_already_bound(
                                        @, span, ident, st.used_fields[ident]),
                             !.no_field_errors = FALSE]
                   [] field_map # {} ->
                         [st EXCEPT !.used_fields = insert(@, ident, span)]
                   [] OTHER ->
                         [st EXCEPT
                             !.used_fields = insert(@, ident, span),
                             !.inexistent_fields =
                                 Append(@, [name |-> ident, span |-> span]),
                             !.no_field_errors = FALSE]
             field_ty == IF ~occupied /\ field_map # {}
                         THEN variant.fields[CHOOSE i \in field_map : TRUE].ty
                         ELSE Error
         IN  check_fields(
                 [st1 EXCEPT !.cx = check_pat(@, pat.subs[k], Append(id, k),
                                              field_ty, def_bm)],
                 pat, id, variant, def_bm, k + 1)

\* the context after the check, and whether no field was in error
check_struct_pat_fields(cx, id, variant, pat, etc, def_bm) ==
    LET st == check_fields([cx |-> cx, used_fields |-> <<>>,
                            no_field_errors |-> TRUE,
                            inexistent_fields |-> <<>>],
                           pat, id, variant, def_bm, 1)
        declared == [i \in DOMAIN variant.fields |-> variant.fields[i].ident]
        unmentioned == SelectSeq(declared,
                                 LAMBDA x : x \notin DOMAIN st.used_fields)
        i == IF Len(st.inexistent_fields) > 0 /\ ~variant.recovered
             THEN error_inexistent_fields(st.cx, st.inexistent_fields,
                                          unmentioned)
             ELSE [cx |-> st.cx, unmentioned_fields |-> unmentioned]
        cx1 == IF variant.non_exhaustive /\ ~variant.local /\ ~etc
               THEN emit(i.cx, "E0638", span_of(id), <<>>)
               ELSE i.cx
        cx2 == IF Len(pat.attr.fields) # 1
               THEN emit(cx1, "union patterns should have exactly one field",
                         span_of(id), <<>>)
               ELSE cx1
        cx3 == IF etc
               THEN emit(cx2, ".. cannot be used in union patterns",
                         span_of(id), <<>>)
               ELSE cx2
    IN  [cx |-> CASE variant.descr = "union" -> cx3
                  [] ~etc /\ Len(i.unmentioned_fields) > 0 ->
                        error_unmentioned_fields(cx1, span_of(id),
                                                 i.unmentioned_fields, variant)
                  [] OTHER -> cx1,
         ok |-> st.no_field_errors]

\* the type of the path whatever the fields
path_ty(no_field_errors, pat_ty) == pat_ty

\* the type of a struct pattern once its fields are checked
checked_ty(no_field_errors, pat_ty) ==
    IF no_field_errors THEN pat_ty ELSE Error

check_pat_struct(cx, pat, id, expected, def_bm) ==
    LET variant_ty == check_struct_path(pat.attr.qpath)
    IN  IF variant_ty = None
        THEN [cx |-> check_subpats(cx, pat, id, 1,
                                   [k \in DOMAIN pat.subs |-> Error], def_bm),
              ty |-> Error]
        ELSE LET v == CHOOSE x \in variant_ty : TRUE
                 cx1 == demand_eqtype_pat(cx, span_of(id), expected, v.ty)
                 f == check_struct_pat_fields(cx1, id, v.variant, pat,
                                              pat.attr.etc, def_bm)
             IN  [cx |-> f.cx, ty |-> checked_ty(f.ok, v.ty)]

error_scrutinee_inconsistent_length(cx, span, min_len, size) ==
    emit_with(cx, "E0527", span, <<min_len, size>>, <<>>)

error_scrutinee_with_rest_inconsistent_length(cx, span, min_len, size) ==
    emit_with(cx, "E0528", span, <<min_len, size>>, <<>>)

error_scrutinee_unfixed_length(cx, span) == emit(cx, "E0730", span, <<>>)

error_expected_array_or_slice(cx, span, expected_ty) ==
    emit_with(cx, "E0529", span, <<expected_ty>>, <<>>)

\* a subtraction that gives 0 where the array is too short
saturating_sub(size, min_len) ==
    IF size >= min_len THEN Some(size - min_len) ELSE Some(0)

\* size.checked_sub(min_len)
checked_sub(size, min_len) ==
    IF size >= min_len THEN Some(size - min_len) ELSE None

\* a slice pattern has pat.attr.before subpatterns, then the subpattern of
\* the rest if pat.attr.slice, then the subpatterns after it
check_pat_slice(cx, pat, id, expected, def_bm) ==
    LET span == span_of(id)
        r == structurally_resolved_type(cx, span, expected)
        expected_ty == r.ty
        before_len == pat.attr.before
        after_len == Len(pat.subs) - before_len
                         - (IF pat.attr.slice THEN 1 ELSE 0)
        min_len == before_len + after_len
        of_size(size) ==
            LET rest == checked_sub(size, min_len)
            IN  CASE ~pat.attr.slice ->
                        [cx |-> IF min_len # size
                                THEN error_scrutinee_inconsistent_length(
                                         r.cx, span, min_len, size)
                                ELSE r.cx,
                         slice_ty |-> Error]
                  [] rest # None ->
                        [cx |-> r.cx,
                         slice_ty |-> Array(expected_ty.t, rest)]
                  [] OTHER ->
                        [cx |-> error_scrutinee_with_rest_inconsistent_length(
                                    r.cx, span, min_len, size),
                         slice_ty |-> Error]
        c == CASE expected_ty.k = "array" ->
                    LET s == IF expected_ty.size # None
                             THEN of_size(CHOOSE n \in expected_ty.size : TRUE)
                             ELSE [cx |-> error_scrutinee_unfixed_length(
                                              r.cx, span),
                                   slice_ty |-> Error]
                    IN  [cx |-> s.cx, inner_ty |-> expected_ty.t,
                         slice_ty |-> s.slice_ty]
               [] expected_ty.k = "slice" ->
                    [cx |-> r.cx, inner_ty |-> expected_ty.t,
                     slice_ty |-> expected_ty]
               [] OTHER ->
                    [cx |-> IF ~references_error(expected_ty)
                            THEN error_expected_array_or_slice(r.cx, span,
                                                               expected_ty)
                            ELSE r.cx,
                     inner_ty |-> Error, slice_ty |-> Error]
        tys == [k \in DOMAIN pat.subs |->
                   IF pat.attr.slice /\ k = before_len + 1 THEN c.slice_ty
                   ELSE c.inner_ty]
    IN  [cx |-> check_subpats(c.cx, pat, id, 1, tys, def_bm),
         ty |-> expected_ty]

\* subpats[0] of a suggestion is indexed whatever the number of subpatterns:
\* with none the index is out of bounds and the check panics
e0023(cx, pat_span, subpats, fields, expected) ==
    LET missing_parenthesis ==
            /\ expected.k = "adt"
            /\ Len(fields) = 1
            /\ fields[1].ty.k = "tuple"
            /\ Len(fields[1].ty.ts) = Len(subpats)
    IN  IF missing_parenthesis /\ Len(subpats) = 0
        THEN [cx EXCEPT !.panicked = TRUE]
        ELSE emit_with(cx, "E0023", pat_span, <<Len(subpats), Len(fields)>>,
                       IF missing_parenthesis
                       THEN <<<<"missing parenthesis", <<>>>>>>
                       ELSE <<>>)

check_pat_tuple_struct(cx, pat, id, expected, def_bm) ==
    LET subpats == pat.subs
        ddpos == pat.attr.ddpos
        on_error(c) == check_subpats(c, pat, id, 1,
                                     [k \in DOMAIN subpats |-> Error], def_bm)
        report_unexpected_res(c) ==
            on_error(emit(c, "E0164", span_of(id), <<>>))
        r == resolve_ty_and_res_ufcs(pat.attr.qpath)
        variant == Variants[pat.attr.qpath]
        pat_ty == Adt(pat.attr.qpath)
        cx1 == demand_eqtype_pat(cx, span_of(id), expected, pat_ty)
    IN  CASE r.res = "Err" -> [cx |-> on_error(cx), ty |-> Error]
          [] ~r.is_fn -> [cx |-> report_unexpected_res(cx), ty |-> Error]
          [] r.res \in {"AssocConst", "Method"} ->
                [cx |-> report_unexpected_res(cx), ty |-> Error]
          [] \/ Len(subpats) = Len(variant.fields)
             \/ Len(subpats) < Len(variant.fields) /\ ddpos # None ->
                [cx |-> check_subpats(
                            cx1, pat, id, 1,
                            [k \in DOMAIN subpats |->
                                variant.fields[enumerate_and_adjust(
                                    k, Len(subpats), Len(variant.fields),
                                    ddpos)].ty],
                            def_bm),
                 ty |-> pat_ty]
          [] OTHER ->
                [cx |-> on_error(e0023(cx1, span_of(id), subpats,
                                       variant.fields, expected)),
                 ty |-> Error]

check_pat_ident(cx, pat, id, expected, def_bm) ==
    LET bm == IF pat.attr.ba = "Unannotated" THEN def_bm
              ELSE convert(pat.attr.ba)
        cx1 == [cx EXCEPT !.pat_binding_modes = insert(@, id, bm)]
        eq_ty == IF bm.by = "reference" THEN new_ref_ty(bm.m, expected)
                 ELSE expected
        cx2 == demand_eqtype_pat(cx1, span_of(id), eq_ty, local_ty(id))
        var == var_id(cx.root, pat.attr.name)
        cx3 == IF var # id
               THEN demand_eqtype_pat(cx2, span_of(id), local_ty(var),
                                      local_ty(id))
               ELSE cx2
    IN  [cx |-> check_subpats(cx3, pat, id, 1,
                              [i \in DOMAIN pat.subs |-> expected], def_bm),
         ty |-> local_ty(id)]

check_pat_or(cx, pat, id, expected, def_bm) ==
    LET r == structurally_resolved_type(cx, span_of(id), expected)
    IN  [cx |-> check_subpats(r.cx, pat, id, 1,
                              [i \in DOMAIN pat.subs |-> expected], def_bm),
         ty |-> r.ty]

\* the error type itself
bare_err(max_len) == Error

\* tcx.mk_tup of max_len error types
tup_of_err(max_len) == Tuple([i \in 1..max_len |-> Error])

check_pat_tuple(cx, pat, id, expected, def_bm) ==
    LET elements == pat.subs
        ddpos == pat.attr
        r == IF ddpos # None
             THEN structurally_resolved_type(cx, span_of(id), expected)
             ELSE [cx |-> cx, ty |-> Error]
        expected_len == IF ddpos # None /\ r.ty.k = "tuple"
                        THEN Len(r.ty.ts) ELSE Len(elements)
        max_len == IF expected_len > Len(elements) THEN expected_len
                   ELSE Len(elements)
        element_tys == [i \in 1..max_len |->
                           Infer(<<1, r.cx.next_ty_var + i - 1>>)]
        cx1 == [r.cx EXCEPT !.next_ty_var = @ + max_len]
        pat_ty == Tuple(element_tys)
        d == demand_eqtype_diag(cx1, span_of(id), expected, pat_ty)
        at(k) == enumerate_and_adjust(k, Len(elements), max_len, ddpos)
    IN  IF d.err
        THEN [cx |-> check_subpats(emit(d.cx, "E0308", span_of(id), <<>>),
                                   pat, id, 1,
                                   [k \in DOMAIN elements |-> Error], def_bm),
              ty |-> tup_of_err(max_len)]
        ELSE [cx |-> check_subpats(d.cx, pat, id, 1,
                                   [k \in DOMAIN elements |->
                                       element_tys[at(k)]], def_bm),
              ty |-> pat_ty]

check_pat_box(cx, pat, id, expected, def_bm) ==
    LET inner_pat == pat.subs[1]
        c == check_dereferencable(cx, span_of(id), expected, inner_pat)
        inner_ty == IF c.ok THEN next_ty_var(c.cx) ELSE Error
        box_ty == IF c.ok THEN Box(inner_ty) ELSE Error
        cx1 == IF c.ok
               THEN demand_eqtype_pat(fresh(c.cx), span_of(id), expected,
                                      box_ty)
               ELSE c.cx
    IN  [cx |-> check_pat(cx1, inner_pat, Append(id, 1), inner_ty, def_bm),
         ty |-> box_ty]

\* a reference pattern whatever the mutability of the expected reference
any_ref(expected, mutbl) == expected.k = "ref"

\* line 1037: ty::Ref(_, r_ty, r_mutbl) if r_mutbl == mutbl
ref_of_mutbl(expected, mutbl) == expected.k = "ref" /\ expected.m = mutbl

check_pat_ref(cx, pat, id, expected0, def_bm) ==
    LET inner_pat == pat.subs[1]
        mutbl == pat.attr
        expected == shallow_resolve(cx.subst, expected0)
        c == check_dereferencable(cx, span_of(id), expected, inner_pat)
        reuse == ref_of_mutbl(expected, mutbl)
        inner_ty == CASE ~c.ok -> Error
                      [] reuse -> expected.t
                      [] OTHER -> next_ty_var(c.cx)
        rptr_ty == CASE ~c.ok -> Error
                     [] reuse -> expected
                     [] OTHER -> new_ref_ty(mutbl, inner_ty)
        cx1 == IF c.ok /\ ~reuse
               THEN demand_eqtype_pat(fresh(c.cx), span_of(id), expected,
                                      rptr_ty)
               ELSE c.cx
    IN  [cx |-> check_pat(cx1, inner_pat, Append(id, 1), inner_ty, def_bm),
         ty |-> rptr_ty]

\* a None from check_pat_range returns before the type is written; calls
\* keeps what the debug! lines of check_pat log: the call and the expected
\* type and default binding mode it goes on with
\* a per-kind check that always has a type for the pattern
typed(l) == [cx |-> l.cx, ty |-> Some(l.ty)]

\* let ty = match pat.kind { .. }
check_pat_kind(cx, pat, id, expected, def_bm) ==
    CASE pat.kind = "Wild" -> [cx |-> cx, ty |-> Some(expected)]
      [] pat.kind = "Lit" -> typed(check_pat_lit(cx, pat, id, expected))
      [] pat.kind = "Range" -> check_pat_range(cx, pat, id, expected)
      [] pat.kind = "Binding" ->
            typed(check_pat_ident(cx, pat, id, expected, def_bm))
      [] pat.kind = "Struct" ->
            typed(check_pat_struct(cx, pat, id, expected, def_bm))
      [] pat.kind = "TupleStruct" ->
            typed(check_pat_tuple_struct(cx, pat, id, expected, def_bm))
      [] pat.kind = "Slice" ->
            typed(check_pat_slice(cx, pat, id, expected, def_bm))
      [] pat.kind = "Or" -> typed(check_pat_or(cx, pat, id, expected, def_bm))
      [] pat.kind = "Tuple" ->
            typed(check_pat_tuple(cx, pat, id, expected, def_bm))
      [] pat.kind = "Box" ->
            typed(check_pat_box(cx, pat, id, expected, def_bm))
      [] pat.kind = "Ref" ->
            typed(check_pat_ref(cx, pat, id, expected, def_bm))

\* self.write_ty(pat.hir_id, ty), which a panic or a range without a type
\* never reaches
record_ty(r, id) ==
    IF r.ty = None \/ r.cx.panicked THEN r.cx
    ELSE write_ty(r.cx, id, CHOOSE ty \in r.ty : TRUE)

\* the call and the (expected, def_bm) it goes on with, b, kept for the
\* properties
log_call(b, id, expected0, def_bm0) ==
    [b.cx EXCEPT !.calls =
        Append(@, [id |-> id, expected |-> expected0, def_bm |-> def_bm0,
                   peeled |-> b.expected, bm |-> b.def_bm])]

\* check_pat after calc_default_binding_mode returned b
check_pat_with(b, pat, id, expected0, def_bm0) ==
    record_ty(check_pat_kind(log_call(b, id, expected0, def_bm0), pat, id,
                             b.expected, b.def_bm), id)

check_pat(cx0, pat, id, expected0, def_bm0) ==
    IF cx0.panicked THEN cx0
    ELSE check_pat_with(calc_default_binding_mode(cx0, pat, id, expected0,
                                                  def_bm0,
                                                  is_non_ref_pat(pat)),
                        pat, id, expected0, def_bm0)

check_pat_top(cx, pat, expected) ==
    check_pat(cx, pat, <<>>, expected, BindByValue(MutImmutable))

\* hir::Pat: its kind, what the kind carries besides patterns, and its
\* subpatterns
Pat(kind, attr, subs) == [kind |-> kind, attr |-> attr, subs |-> subs]

\* patterns without subpatterns: _, x, ref mut y, 1, 1..=2, true..=false
Leaves ==
    {Pat("Wild", <<>>, <<>>),
     Pat("Binding", [ba |-> "Unannotated", name |-> "x"], <<>>),
     Pat("Binding", [ba |-> "RefMut", name |-> "y"], <<>>),
     Pat("Lit", Prim("i32"), <<>>),
     Pat("Range", <<Prim("i32"), Prim("i32")>>, <<>>),
     Pat("Range", <<Prim("bool"), Prim("bool")>>, <<>>),
     Pat("Range", <<Prim("i32"), Prim("bool")>>, <<>>),
     Pat("Range", <<Error, Prim("char")>>, <<>>)}

\* the patterns nested at most d deep: &p, &mut p, box p, z @ p, (p, q),
\* (p, ..) and p | q, with q one of _ and a binding
RECURSIVE Patterns(_)
\* the struct patterns: of the struct S with these fields named, with and
\* without "..", and of the other paths with one or two fields named
StructPatterns ==
    LET first == {Pat("Binding", [ba |-> "Unannotated", name |-> "x"], <<>>)}
        StructPat(qpath, fields, etc, p) ==
            Pat("Struct", [qpath |-> qpath, fields |-> fields, etc |-> etc],
                IF Len(fields) = 0 THEN <<>>
                ELSE <<p>> \o [i \in 1..(Len(fields) - 1) |->
                                  Pat("Lit", Prim("i32"), <<>>)])
    IN  {StructPat("S", fields, etc, p) :
            fields \in {<<>>, <<foo>>, <<bar>>, <<fop>>, <<qux>>,
                        <<foo, bar>>, <<foo, foo>>, <<fop, bar>>, <<fop, foo>>,
                        <<qux, fop>>},
            etc \in BOOLEAN, p \in first}
        \cup {StructPat(qpath, fields, etc, Pat("Wild", <<>>, <<>>)) :
                 qpath \in {"N", "U", "Missing"},
                 fields \in {<<foo>>, <<foo, bar>>}, etc \in BOOLEAN}

\* the slice patterns [x, _, rest @ .., 0]: with up to two subpatterns
\* before, with and without the rest, and with up to one subpattern after
SlicePatterns ==
    LET elt(k) == IF k = 1
                  THEN Pat("Binding", [ba |-> "Unannotated", name |-> "x"],
                           <<>>)
                  ELSE Pat("Wild", <<>>, <<>>)
        rest == Pat("Binding", [ba |-> "Unannotated", name |-> "r"], <<>>)
    IN  {Pat("Slice", [before |-> b, slice |-> s],
             [k \in 1..b |-> elt(k)]
                 \o (IF s THEN <<rest>> ELSE <<>>)
                 \o [k \in 1..a |-> Pat("Lit", Prim("i32"), <<>>)]) :
            b \in 0..2, s \in BOOLEAN, a \in 0..1}

\* the tuple struct patterns P(x, 0), P(x), P(x, ..), P(x, 0, _), T(),
\* T(x), and two whose path is not a tuple struct
TupleStructPatterns ==
    LET x == Pat("Binding", [ba |-> "Unannotated", name |-> "x"], <<>>)
        zero == Pat("Lit", Prim("i32"), <<>>)
        wild == Pat("Wild", <<>>, <<>>)
        TupleStructPat(qpath, ddpos, subpats) ==
            Pat("TupleStruct", [qpath |-> qpath, ddpos |-> ddpos], subpats)
    IN  {TupleStructPat("P", None, <<x, zero>>),
         TupleStructPat("P", None, <<x>>),
         TupleStructPat("P", Some(1), <<x>>),
         TupleStructPat("P", None, <<x, zero, wild>>),
         TupleStructPat("T", None, <<>>),
         TupleStructPat("T", None, <<x>>),
         TupleStructPat("Missing", None, <<x>>),
         TupleStructPat("method", None, <<x>>)}

Patterns(d) ==
    IF d = 0 THEN Leaves
    ELSE LET P == Patterns(d - 1)
         IN  Leaves \cup StructPatterns \cup SlicePatterns
                    \cup TupleStructPatterns
             \cup {Pat("Ref", m, <<p>>) : m \in Mutability, p \in P}
             \cup {Pat("Box", <<>>, <<p>>) : p \in P}
             \cup {Pat("Binding", [ba |-> "Unannotated", name |-> "z"], <<p>>) :
                      p \in P}
             \cup {Pat("Tuple", None, <<p, q>>) :
                      p \in P,
                      q \in {Pat("Binding",
                                  [ba |-> "Unannotated", name |-> "w"], <<>>)}}
             \cup {Pat("Tuple", Some(1), <<p>>) : p \in P}
             \cup {Pat("Or", <<>>, <<p, q>>) :
                      p \in P,
                      q \in {Pat("Binding",
                                  [ba |-> "Unannotated", name |-> "x"], <<>>)}}

\* the expected types a pattern is checked against
ExpectedTypes ==
    {Prim("i32"), Prim("char"),
     Ref(MutImmutable, Prim("i32")), Ref(MutMutable, Prim("i32")),
     Tuple(<<Prim("i32"), Prim("i32")>>),
     Tuple(<<Prim("i32"), Prim("char"), Prim("i32")>>),
     Ref(MutImmutable, Tuple(<<Ref(MutMutable, Prim("i32")), Prim("i32")>>)),
     Ref(MutMutable, Ref(MutImmutable, Tuple(<<Prim("i32"), Prim("i32")>>))),
     Box(Prim("i32")),
     Ref(MutImmutable, Dynamic),
     Adt("S"),
     Adt("P"),
     Adt("T"),
     Slice(Prim("i32")),
     Array(Prim("i32"), None)}
    \cup {Array(Prim("i32"), Some(size)) : size \in 0..MaxSize}

\* i32 behind the given layers of reference, the outermost first
RECURSIVE RefTy(_)
RefTy(layers) ==
    IF layers = <<>> THEN Prim("i32")
    ELSE Ref(Head(layers), RefTy(Tail(layers)))

Layers == UNION {[1..n -> Mutability] : n \in 0..MaxLayers}

InitPat ==
    /\ NoSession
    /\ splice = NoSplice
    /\ \/ \E pat \in Patterns(MaxDepth), expected \in ExpectedTypes :
              typeck = [NoTypeck EXCEPT !.pc = "check_pat_top",
                                        !.pat = pat,
                                        !.expected = expected,
                                        !.cx.root = pat]
       \/ \E layers \in Layers, def_bm \in BindingMode :
              typeck = [NoTypeck EXCEPT !.pc = "peel_off_references",
                                        !.pat = Pat("Tuple", None, <<>>),
                                        !.expected = RefTy(layers),
                                        !.def_bm = def_bm]

\* what the pattern checker leaves alone
outside_typeck ==
    <<flags, inner, tracked, unwind, builder, buffered_diagnostics,
      handler_alive, steps, last, lock, threads, driver, splice>>

CheckPatTop ==
    /\ typeck.pc = "check_pat_top"
    /\ LET cx == check_pat_top(typeck.cx, typeck.pat, typeck.expected)
       IN  typeck' = [typeck EXCEPT
                         !.pc = IF cx.panicked THEN "panicked"
                                ELSE "returned",
                         !.cx = cx]
    /\ UNCHANGED outside_typeck

PeelOffReferences ==
    /\ typeck.pc = "peel_off_references"
    /\ LET r == peel_off_references(typeck.cx, <<>>, typeck.expected,
                                    typeck.def_bm)
       IN  typeck' = [typeck EXCEPT
                         !.pc = "peeled",
                         !.cx = r.cx,
                         !.ret = [expected |-> r.expected,
                                  def_bm |-> r.def_bm]]
    /\ UNCHANGED outside_typeck

NextPat == CheckPatTop \/ PeelOffReferences

SpecPat == InitPat /\ [][NextPat]_vars

-----------------------------------------------------------------------------
(* Vocabulary of the properties *)

pre == last.pre

\* d is dropped by the first two tests of emit_diagnostic
Filtered(d) ==
    cancelled(d) \/ (d.level = "Warning" /\ ~flags.can_emit_warnings)

BombDiag == Diagnostic_new("Bug", BombMsg)

\* an equal diagnostic went through the pipeline since the last reset
SeenBefore(d) == hash(d) \in pre.inner.emitted_diagnostics

WorldUnchanged ==
    inner = pre.inner /\ tracked = pre.tracked /\ unwind = pre.unwind

Unresolved == pre.unwind = "none" /\ ~cancelled(pre.builder.diagnostic)

-----------------------------------------------------------------------------
(* C1 *)

\* What one call of emit_diagnostic(d) does to the emitter, the set of seen
\* hashes and the raw counter, when d is its first or a repeated occurrence.
DedupStep(d) ==
    /\ inner.emitter = IF SeenBefore(d) THEN pre.inner.emitter
                       ELSE Append(pre.inner.emitter, d)
    /\ hash(d) \in inner.emitted_diagnostics
    /\ inner.err_count = pre.inner.err_count + (IF is_error(d) THEN 1 ELSE 0)

\* C1 (as amended): of two emit_diagnostic calls with identical diagnostics
\* that are neither Cancelled nor a Warning while warnings are disabled, with
\* no reset_err_count in between, exactly one reaches the emitter: the first
\* occurrence in the session is forwarded and remembered, a remembered one is
\* not forwarded, nothing but reset_err_count forgets; err_count grows by one
\* at each error-level occurrence, the deduplicated one included.
C1_DedupExactlyOne ==
    /\ (last.op = "emit_diagnostic" /\ ~Filtered(last.d)) => DedupStep(last.d)
    /\ last.op # "reset_err_count" =>
           pre.inner.emitted_diagnostics \subseteq inner.emitted_diagnostics

\* C1 witness: an error identical to one already emitted in this session is
\* emitted again: it is not forwarded, and the raw counter stands at 2.
C1_Witness ==
    /\ last.op = "emit_diagnostic"
    /\ is_error(last.d)
    /\ SeenBefore(last.d)
    /\ unwind = "none"
    /\ inner.err_count = 2
    /\ inner.emitter = <<last.d>>

\* C1 as written: for ANY diagnostic passed to emit_diagnostic the first
\* occurrence reaches the emitter and a repeated one does not.
C1_Original ==
    last.op = "emit_diagnostic" => DedupStep(last.d)

-----------------------------------------------------------------------------
(* C2 *)

\* C2 (as amended): dropping an unresolved builder while no unwind is in
\* progress always ends in a panic, and the Bug "constructed but not emitted"
\* is the first diagnostic it emits; the original is emitted next and the
\* destructor's own panic follows, unless an emission reached the
\* treat-err-as-bug threshold and panicked first.  Dropping a cancelled
\* builder, or dropping during an unwind, does nothing.
C2_DropEscalates ==
    last.op = "drop" =>
        /\ ~builder.alive
        /\ IF Unresolved
           THEN LET orig == pre.builder.diagnostic
                IN  /\ unwind \in {"panic", "treat_err_as_bug"}
                    /\ unwind = "panic" =>
                           tracked = pre.tracked \o <<BombDiag, orig>>
                    /\ unwind = "treat_err_as_bug" =>
                           /\ flags.treat_err_as_bug # None
                           /\ tracked \in {pre.tracked \o <<BombDiag>>,
                                           pre.tracked \o <<BombDiag, orig>>}
           ELSE WorldUnchanged

\* C2 witness: an unresolved builder was dropped, the bomb and the original
\* were emitted in that order and the destructor panicked.
C2_Witness ==
    /\ last.op = "drop"
    /\ Unresolved
    /\ unwind = "panic"
    /\ tracked = pre.tracked \o <<BombDiag, pre.builder.diagnostic>>

\* C2 as written: the bomb is emitted, then the original, then the panic.
C2_Original ==
    (last.op = "drop" /\ Unresolved) =>
        /\ unwind # "none"
        /\ tracked = pre.tracked \o <<BombDiag, pre.builder.diagnostic>>

-----------------------------------------------------------------------------
(* C3 *)

MustFlush ==
    pre.inner.delayed_span_bugs # <<>> /\ pre.inner.err_count = 0

\* C3 (as amended): destroying the handler at the end of a session panics if
\* and only if the delayed-bug buffer is non-empty and err_count is 0; then
\* the buffer is taken and its bugs are emitted in order, all of them unless
\* an emission reaches the treat-err-as-bug threshold and panics first.  If
\* an error was counted (or nothing was delayed) nothing is emitted and
\* nothing panics.
C3_HandlerDropFlush ==
    (last.op = "drop_handler" /\ pre.unwind = "none") =>
        LET bugs == pre.inner.delayed_span_bugs
        IN  /\ (unwind # "none") <=> MustFlush
            /\ ~MustFlush => WorldUnchanged
            /\ MustFlush =>
                   /\ inner.delayed_span_bugs = <<>>
                   /\ unwind \in {"delayed_span_bug", "treat_err_as_bug"}
                   /\ unwind = "delayed_span_bug" =>
                          tracked = pre.tracked \o bugs
                   /\ unwind = "treat_err_as_bug" =>
                          \E k \in 1..Len(bugs) :
                              tracked = pre.tracked \o SubSeq(bugs, 1, k)

\* C3 witness: errors were emitted and then forgotten by reset_err_count, so
\* the delayed bug is flushed at destruction and the session panics.
C3_Witness ==
    /\ last.op = "drop_handler"
    /\ pre.unwind = "none"
    /\ unwind = "delayed_span_bug"
    /\ \E i \in DOMAIN pre.inner.emitter : is_error(pre.inner.emitter[i])
    /\ tracked = pre.tracked \o pre.inner.delayed_span_bugs

\* C3 as written: the whole buffer is flushed and the session panics, if and
\* only if the buffer is non-empty and no error was counted.
C3_Original ==
    (last.op = "drop_handler" /\ pre.unwind = "none") =>
        /\ (unwind # "none") <=> MustFlush
        /\ tracked = IF MustFlush
                     THEN pre.tracked \o pre.inner.delayed_span_bugs
                     ELSE pre.tracked

-----------------------------------------------------------------------------
(* C4 *)

\* C4: emit() leaves the builder cancelled when it returns; emit() on a
\* cancelled builder sends nothing to the tracking hook or the emitter and
\* changes no handler state; dropping a cancelled builder triggers nothing.
C4_EmitIdempotent ==
    /\ (last.op = "emit" /\ unwind = "none") => cancelled(builder.diagnostic)
    /\ (last.op \in {"emit", "drop"} /\ cancelled(pre.builder.diagnostic)) =>
           WorldUnchanged

\* C4 witness: a second emit() on a builder whose first emit() put its error
\* through the pipeline.
C4_Witness ==
    /\ last.op = "emit"
    /\ cancelled(pre.builder.diagnostic)
    /\ WorldUnchanged
    /\ \E i \in DOMAIN tracked :
          tracked[i] = [pre.builder.diagnostic EXCEPT !.level = "Error"]

-----------------------------------------------------------------------------
(* C5 *)

\* C5 as written: no diagnostic of level Cancelled ever reaches the emitter.
C5_NoCancelledEmitted ==
    \A i \in DOMAIN inner.emitter : ~cancelled(inner.emitter[i])

-----------------------------------------------------------------------------
(* C6 *)

\* C6: buffer(v) with neither dont_buffer_diagnostics nor treat_err_as_bug
\* set appends exactly the builder's diagnostic to v and touches neither the
\* handler nor the destructor check; with either flag set it puts the
\* diagnostic through the handler's pipeline at once, leaves v unchanged and
\* the destructor check does not fire.
C6_Buffer ==
    last.op = "buffer" =>
        LET orig == pre.builder.diagnostic
        IN  /\ ~builder.alive
            /\ IF ~flags.dont_buffer_diagnostics
                    /\ flags.treat_err_as_bug = None
               THEN /\ buffered_diagnostics = Append(pre.v, orig)
                    /\ WorldUnchanged
               ELSE /\ buffered_diagnostics = pre.v
                    /\ tracked = IF Filtered(orig) THEN pre.tracked
                                 ELSE Append(pre.tracked, orig)
                    /\ (~Filtered(orig) /\ ~SeenBefore(orig)) =>
                           inner.emitter = Append(pre.inner.emitter, orig)
                    /\ unwind \in {"none", "treat_err_as_bug"}

\* C6 witness: an unresolved error was moved into the caller's buffer.
C6_Witness ==
    /\ last.op = "buffer"
    /\ Unresolved
    /\ is_error(pre.builder.diagnostic)
    /\ buffered_diagnostics = <<pre.builder.diagnostic>>
    /\ inner.emitter = <<>>

-----------------------------------------------------------------------------
(* C7 *)

\* C7 as written, for the sessions that set no treat-err-as-bug threshold:
\* span_bug and bug emit one Bug-level diagnostic and end with the
\* ExplicitBug panic, never with another unwind signal.
C7_AlwaysExplicitBug ==
    (last.op \in {"span_bug", "bug"} /\ flags.treat_err_as_bug = None) =>
        /\ tracked = Append(pre.tracked, last.d)
        /\ unwind = "ExplicitBug"

-----------------------------------------------------------------------------
(* C8 *)

\* counting one more error makes emit_diagnostic panic: the raw counter
\* reaches the configured threshold (the second error, for a threshold of 0)
ReachesThreshold ==
    \E c \in flags.treat_err_as_bug :
        pre.inner.err_count + 1 >= (IF c = 0 THEN 2 ELSE c)

\* C8 (as amended): delay_span_bug with the threshold already satisfied
\* emits the Bug, does not return and adds nothing to the delayed-bug buffer.
\* Otherwise, with report_delayed_bugs unset it appends exactly one Bug-level
\* diagnostic to the buffer, emits nothing and returns; with it set it emits
\* the Bug first and then appends it and returns, unless that emission
\* reaches the threshold: then it panics and nothing is appended.
C8_DelaySpanBug ==
    last.op = "delay_span_bug" =>
        LET delayed == pre.inner.delayed_span_bugs
        IN  IF treat_err_as_bug(pre.inner)
            THEN /\ unwind # "none"
                 /\ inner.delayed_span_bugs = delayed
                 /\ tracked = Append(pre.tracked, last.d)
            ELSE IF ~flags.report_delayed_bugs
            THEN /\ unwind = "none"
                 /\ inner = [pre.inner EXCEPT
                                !.delayed_span_bugs = Append(delayed, last.d)]
                 /\ tracked = pre.tracked
            ELSE /\ tracked = Append(pre.tracked, last.d)
                 /\ IF ReachesThreshold
                    THEN /\ unwind = "treat_err_as_bug"
                         /\ inner.delayed_span_bugs = delayed
                    ELSE /\ unwind = "none"
                         /\ inner.delayed_span_bugs = Append(delayed, last.d)

\* C8 witness: the threshold was configured but not yet satisfied, and the
\* bug was stored without being emitted.
C8_Witness ==
    /\ last.op = "delay_span_bug"
    /\ flags.treat_err_as_bug # None
    /\ ~treat_err_as_bug(pre.inner)
    /\ pre.inner.err_count = 1
    /\ unwind = "none"
    /\ inner.delayed_span_bugs = Append(pre.inner.delayed_span_bugs, last.d)
    /\ tracked = pre.tracked

\* C8 as written: whenever the threshold is not already satisfied, exactly
\* one Bug-level diagnostic is appended and delay_span_bug returns.
C8_Original ==
    (last.op = "delay_span_bug" /\ ~treat_err_as_bug(pre.inner)) =>
        /\ unwind = "none"
        /\ inner.delayed_span_bugs =
               Append(pre.inner.delayed_span_bugs, last.d)

-----------------------------------------------------------------------------
(* C9 *)

\* what DiagnosticBuilder::delay_as_bug is claimed to do, as amended
DelayAsBugEffect ==
    LET bugd    == [pre.builder.diagnostic EXCEPT !.level = "Bug"]
        delayed == pre.inner.delayed_span_bugs
    IN  /\ tracked = IF flags.report_delayed_bugs
                     THEN Append(pre.tracked, bugd) ELSE pre.tracked
        /\ IF flags.report_delayed_bugs /\ ReachesThreshold
           THEN /\ unwind = "treat_err_as_bug"
                /\ inner.delayed_span_bugs = delayed
                /\ builder.diagnostic = bugd
           ELSE /\ unwind = "none"
                /\ inner.delayed_span_bugs = Append(delayed, bugd)
                /\ cancelled(builder.diagnostic)

\* what DiagnosticBuilder::emit does
EmitEffect ==
    LET orig == pre.builder.diagnostic
    IN  /\ tracked = IF Filtered(orig) THEN pre.tracked
                     ELSE Append(pre.tracked, orig)
        /\ inner.delayed_span_bugs = pre.inner.delayed_span_bugs
        /\ unwind = "none" => cancelled(builder.diagnostic)

\* C9 (as amended): the builder's delay_as_bug turns the level into Bug,
\* emits that Bug at once only when report_delayed_bugs is set, then appends
\* exactly one copy of it to the delayed-bug buffer and leaves the builder
\* cancelled, unless the emission reached the treat-err-as-bug threshold:
\* then it panics with nothing appended.  emit_unless(delay) does exactly
\* what delay_as_bug does when delay is true and what emit does otherwise.
C9_BuilderDelayAsBug ==
    /\ last.op = "delay_as_bug" => DelayAsBugEffect
    /\ last.op = "emit_unless" =>
           IF last.flag THEN DelayAsBugEffect ELSE EmitEffect

\* C9 witness: an Error builder was delayed with report_delayed_bugs unset:
\* one Bug copy is stored, nothing was emitted, the builder is cancelled.
C9_Witness ==
    /\ last.op = "delay_as_bug"
    /\ pre.builder.diagnostic.level = "Error"
    /\ inner.delayed_span_bugs =
           <<[pre.builder.diagnostic EXCEPT !.level = "Bug"]>>
    /\ tracked = pre.tracked
    /\ cancelled(builder.diagnostic)

\* C9 as written: delay_as_bug always appends one Bug copy and leaves the
\* builder cancelled.
C9_Original ==
    last.op = "delay_as_bug" =>
        /\ inner.delayed_span_bugs =
               Append(pre.inner.delayed_span_bugs,
                      [pre.builder.diagnostic EXCEPT !.level = "Bug"])
        /\ cancelled(builder.diagnostic)

-----------------------------------------------------------------------------
(* C10 *)

\* the emit_diagnostic call just made counted an error and left the raw
\* counter at or beyond threshold N
BroughtCounterTo(N) ==
    /\ last.op = "emit_diagnostic"
    /\ ~Filtered(last.d)
    /\ is_error(last.d)
    /\ inner.err_count = pre.inner.err_count + 1
    /\ inner.err_count >= N

\* C10 (as amended): with a threshold N >= 1 configured, the emit_diagnostic
\* call whose error-level diagnostic brings err_count to N or beyond panics
\* with the treat-err-as-bug message, deduplicated or not, and no operation
\* returns normally leaving err_count >= N.
C10_PanicAtThreshold ==
    \A N \in flags.treat_err_as_bug :
        N >= 1 =>
            /\ BroughtCounterTo(N) => unwind = "treat_err_as_bug"
            /\ (last.op = "emit_diagnostic" /\ unwind = "none") =>
                   inner.err_count < N

\* C10 witness: with N = 2 a deduplicated second error trips the threshold.
C10_Witness ==
    /\ flags.treat_err_as_bug = Some(2)
    /\ BroughtCounterTo(2)
    /\ SeenBefore(last.d)
    /\ unwind = "treat_err_as_bug"

\* C10 as written: for every configured N the call that brings err_count to N
\* or beyond panics.
C10_Original ==
    \A N \in flags.treat_err_as_bug :
        BroughtCounterTo(N) => unwind = "treat_err_as_bug"

-----------------------------------------------------------------------------
(* C11 *)

\* C11: abort_if_errors raises the fatal unwind signal if and only if the raw
\* error counter is nonzero; abort_if_errors_and_should_abort raises it if
\* and only if the counter is nonzero and continue_after_error is false;
\* continue_after_error is true in a freshly constructed handler; neither
\* operation changes the handler's state or calls the tracking hook.
C11_AbortIfErrors ==
    /\ last.op = "with_emitter_and_flags" => inner.continue_after_error
    /\ last.op = "abort_if_errors" =>
           /\ inner = pre.inner /\ tracked = pre.tracked
           /\ unwind = IF pre.inner.err_count # 0 THEN "FatalError" ELSE "none"
    /\ last.op = "abort_if_errors_and_should_abort" =>
           /\ inner = pre.inner /\ tracked = pre.tracked
           /\ unwind = IF pre.inner.err_count # 0
                           /\ ~pre.inner.continue_after_error
                        THEN "FatalError" ELSE "none"

\* C11 witness: with an error counted and continue_after_error switched off,
\* abort_if_errors_and_should_abort raised the fatal signal.
C11_Witness ==
    /\ last.op = "abort_if_errors_and_should_abort"
    /\ pre.inner.err_count > 0
    /\ ~pre.inner.continue_after_error
    /\ unwind = "FatalError"
    /\ inner = pre.inner

-----------------------------------------------------------------------------
(* C12 *)

\* the calls of emit_diagnostic the worker threads have completed
Calls ==
    {c \in Threads \X (1..(MaxCalls + 1)) : c[2] <= Len(threads[c[1]].done)}

CallsOf(d) == {c \in Calls : threads[c[1]].done[c[2]] = d}

InEmitter(d) == {i \in DOMAIN inner.emitter : inner.emitter[i] = d}

InCriticalSection ==
    {t \in Threads : threads[t].pc \in
        {"filter", "track", "insert", "emitter", "bump", "drop_guard"}}

\* the raw and the deduplicated counter account for every completed call
CountersReflectCalls ==
    /\ inner.err_count =
           Cardinality({c \in Calls : is_error(threads[c[1]].done[c[2]])})
    /\ inner.deduplicated_err_count =
           Cardinality({d \in ThreadInputs : is_error(d) /\ CallsOf(d) # {}})

\* C12 (as amended): when threads call Handler::emit_diagnostic concurrently
\* with identical diagnostics that are neither Cancelled nor a Warning while
\* warnings are disabled, in every interleaving exactly one of the calls
\* reaches the emitter and the counters reflect every call: at most one
\* thread is between taking and dropping the guard, and whenever no guard
\* is alive each diagnostic emitted so far is in the emitter exactly once
\* (never, if it is filtered) and both counters have counted every call.
C12_ConcurrentDedup ==
    /\ Cardinality(InCriticalSection) <= 1
    /\ lock = NoThread =>
           /\ \A d \in ThreadInputs :
                  Cardinality(InEmitter(d)) =
                      IF CallsOf(d) # {} /\ ~Filtered(d) THEN 1 ELSE 0
           /\ CountersReflectCalls

\* C12 witness: both threads have emitted the same error; it is in the
\* emitter once, the raw counter stands at 2 and the deduplicated one at 1.
C12_Witness ==
    /\ lock = NoThread
    /\ \A t \in Threads : threads[t].done = <<Diagnostic_new("Error", "m1")>>
    /\ inner.emitter = <<Diagnostic_new("Error", "m1")>>
    /\ inner.err_count = 2
    /\ inner.deduplicated_err_count = 1

\* C12 as written: of the concurrent calls with identical diagnostics, of
\* whatever level, exactly one reaches the emitter.
C12_Original ==
    lock = NoThread =>
        \A d \in ThreadInputs :
            CallsOf(d) # {} => Cardinality(InEmitter(d)) = 1

-----------------------------------------------------------------------------
(* C13 *)

SummaryText(N) ==
    IF N = 1 THEN "aborting due to previous error"
    ELSE "aborting due to " \o ToString(N) \o " previous errors"

\* the recorded error codes the registry describes, when print_error_count
\* was called
Explainable ==
    {c \in pre.inner.emitted_diagnostic_codes :
        c \in ErrorCodes /\ c \in driver.registry}

\* how many explainable codes come before c
Rank(c) ==
    Cardinality({o \in Explainable : code_number(o) < code_number(c)})

\* the explainable codes in ascending order, cut after the ninth
Listed ==
    [i \in 1..(IF Cardinality(Explainable) > 9 THEN 9
               ELSE Cardinality(Explainable)) |->
        CHOOSE c \in Explainable : Rank(c) = i - 1]

\* the notes that follow the summary
ExpectedNotes ==
    IF ~driver.should_show_explain \/ Explainable = {} THEN <<>>
    ELSE IF Cardinality(Explainable) = 1
    THEN <<Diagnostic_new("FailureNote",
             "For more information about this error, try rustc --explain "
                 \o Listed[1] \o ".")>>
    ELSE <<Diagnostic_new("FailureNote",
             "Some errors have detailed explanations: " \o join(Listed)
                 \o (IF Cardinality(Explainable) > 9 THEN "..." ELSE ".")),
           Diagnostic_new("FailureNote",
             "For more information about an error, try rustc --explain "
                 \o Listed[1] \o ".")>>

\* the diagnostics of s that no equal diagnostic preceded in this session
NotSeenBefore(s) == SelectSeq(s, LAMBDA d : ~SeenBefore(d))

\* C13 (as amended): print_error_count emits nothing and changes no state
\* when the deduplicated error count is zero, and also when the
\* treat-err-as-bug threshold is already reached by the raw count.
\* Otherwise, with a deduplicated count N > 0, it emits one Fatal summary
\* "aborting due to N previous errors" ("aborting due to previous error" for
\* N = 1), N being the deduplicated and not the raw count; the summary is
\* itself counted as an error and can reach the treat-err-as-bug threshold:
\* then print_error_count panics and nothing follows.  If it does not, the
\* summary is followed by the notes naming at most 9 distinct explainable
\* error codes in ascending order.  Summary and notes go through
\* emit_diagnostic: each reaches the emitter unless an equal diagnostic,
\* such as the note of an earlier print_error_count, was emitted before.
C13_PrintErrorCount ==
    last.op = "print_error_count" =>
        LET N == pre.inner.deduplicated_err_count
            s == Diagnostic_new("Fatal", SummaryText(N))
        IN  IF N = 0 \/ treat_err_as_bug(pre.inner) THEN WorldUnchanged
            ELSE /\ inner.deduplicated_err_count = N + 1
                 /\ inner.err_count = pre.inner.err_count + 1
                 /\ unwind \in {"none", "treat_err_as_bug"}
                 /\ unwind = "none" =>
                        /\ tracked = pre.tracked \o <<s>> \o ExpectedNotes
                        /\ inner.emitter =
                               pre.inner.emitter
                                   \o NotSeenBefore(<<s>> \o ExpectedNotes)
                 /\ unwind # "none" =>
                        /\ tracked = Append(pre.tracked, s)
                        /\ inner.emitter =
                               pre.inner.emitter \o NotSeenBefore(<<s>>)

\* C13 witness: ten explainable codes were recorded and one error was
\* emitted twice; the summary counts 10 errors, not 11, and the note lists
\* nine codes.
C13_Witness ==
    /\ last.op = "print_error_count"
    /\ pre.inner.deduplicated_err_count = 10
    /\ pre.inner.err_count = 11
    /\ Cardinality(Explainable) = 10
    /\ driver.should_show_explain
    /\ unwind = "none"
    /\ Len(tracked) = Len(pre.tracked) + 3
    /\ tracked[Len(pre.tracked) + 1] =
           Diagnostic_new("Fatal", "aborting due to 10 previous errors")

\* C13 as written: whenever the deduplicated count is N > 0 the fatal summary
\* is emitted.
C13_Original ==
    (last.op = "print_error_count" /\ pre.inner.deduplicated_err_count > 0) =>
        /\ Len(tracked) > Len(pre.tracked)
        /\ tracked[Len(pre.tracked) + 1] =
               Diagnostic_new("Fatal",
                              SummaryText(pre.inner.deduplicated_err_count))

-----------------------------------------------------------------------------
(* C14 *)

\* the diagnostics of s that get past deduplication, seen being the hashes
\* remembered before
RECURSIVE Survivors(_, _)
Survivors(s, seen) ==
    IF s = <<>> THEN <<>>
    ELSE IF hash(Head(s)) \in seen THEN Survivors(Tail(s), seen)
    ELSE <<Head(s)>> \o Survivors(Tail(s), seen \cup {hash(Head(s))})

\* the hook calls made by the last operation
NewlyTracked == SubSeq(tracked, Len(pre.tracked) + 1, Len(tracked))

\* C14 (as amended): the tracking hook is invoked exactly once by each call
\* of emit_diagnostic whose diagnostic is neither Cancelled nor a suppressed
\* Warning, before deduplication: once for each diagnostic that reaches the
\* emitter through emit_diagnostic and once more for each deduplicated
\* duplicate of it.  It is not invoked for a cancelled diagnostic or a
\* suppressed warning, nor for a diagnostic that force_print_diagnostic
\* hands to the emitter.
C14_TrackingHook ==
    /\ last.op = "emit_diagnostic" =>
           tracked = IF Filtered(last.d) THEN pre.tracked
                     ELSE Append(pre.tracked, last.d)
    /\ last.op = "force_print_diagnostic" =>
           /\ tracked = pre.tracked
           /\ inner.emitter = Append(pre.inner.emitter, last.d)
    /\ last.op # "force_print_diagnostic" =>
           /\ pre.tracked = SubSeq(tracked, 1, Len(pre.tracked))
           /\ inner.emitter =
                  pre.inner.emitter
                      \o Survivors(NewlyTracked, pre.inner.emitted_diagnostics)

\* C14 witness: a duplicate of an emitted note went through emit_diagnostic:
\* the hook was called for it, the emitter was not.
C14_Witness ==
    /\ last.op = "emit_diagnostic"
    /\ last.d.level = "Note"
    /\ SeenBefore(last.d)
    /\ tracked = Append(pre.tracked, last.d)
    /\ inner.emitter = pre.inner.emitter

\* C14 as written: the hook is not invoked for a diagnostic that does not
\* reach the emitter, and is invoked once for one that does.
C14_Original ==
    last.op = "emit_diagnostic" =>
        Len(tracked) - Len(pre.tracked)
            = Len(inner.emitter) - Len(pre.inner.emitter)

-----------------------------------------------------------------------------
(* C15 *)

WarningConstructors ==
    {"struct_warn", "struct_span_warn", "struct_span_warn_with_code"}

\* the diagnostics the last operation handed to the emitter
NewlyEmitted ==
    SubSeq(inner.emitter, Len(pre.inner.emitter) + 1, Len(inner.emitter))

\* the builder the last operation acted on was made by a warning constructor
\* while warnings were disabled
WasSuppressedWarning ==
    /\ ~flags.can_emit_warnings
    /\ pre.builder.alive
    /\ pre.builder.diagnostic \in
           {cancel(Diagnostic_new("Warning", m)) : m \in Msgs}
             \cup {cancel(set_span(Diagnostic_new("Warning", m), sp)) :
                       m \in Msgs, sp \in Spans}
             \cup {cancel(set_code(set_span(Diagnostic_new("Warning", m), sp),
                                   code)) :
                       m \in Msgs, sp \in Spans, code \in Codes}

\* C15 (as amended): with can_emit_warnings false, no Warning-level
\* diagnostic reaches the emitter through emit_diagnostic or a builder, and
\* handler state (counters, dedup set, recorded codes, tracking hook) is
\* unchanged by it: the builders returned by struct_warn, struct_span_warn
\* and struct_span_warn_with_code are already cancelled, so that emitting or
\* dropping them does nothing, and emit_diagnostic returns at once.  Only
\* force_print_diagnostic hands a Warning to the emitter regardless.
C15_WarningsDisabled ==
    ~flags.can_emit_warnings =>
        /\ last.op \in WarningConstructors =>
               cancelled(builder.diagnostic) /\ WorldUnchanged
        /\ (last.op \in {"emit", "drop"} /\ WasSuppressedWarning) =>
               WorldUnchanged
        /\ (last.op = "emit_diagnostic" /\ last.d.level = "Warning") =>
               WorldUnchanged
        /\ last.op # "force_print_diagnostic" =>
               \A i \in DOMAIN NewlyEmitted :
                   NewlyEmitted[i].level # "Warning"

\* C15 witness: with warnings disabled, a builder made by
\* struct_span_warn_with_code was emitted and nothing happened.
C15_Witness ==
    /\ ~flags.can_emit_warnings
    /\ last.op = "emit"
    /\ pre.builder.alive
    /\ pre.builder.diagnostic.code # None
    /\ WasSuppressedWarning
    /\ WorldUnchanged

\* C15 as written: with warnings disabled no Warning-level diagnostic
\* reaches the emitter.
C15_Original ==
    ~flags.can_emit_warnings =>
        \A i \in DOMAIN inner.emitter : inner.emitter[i].level # "Warning"


\* the file as one string, its lines joined by line ends
RECURSIVE FileText(_)
FileText(n) ==
    IF n = 1 THEN Lines[1] ELSE FileText(n - 1) \o <<"\n">> \o Lines[n]

\* the file between two byte offsets
Between(a, b) == slice(FileText(Len(Lines)), a, b)

\* the sorted parts from the k-th on, each range replaced by its snippet,
\* with the untouched text that follows each up to the byte offset end
RECURSIVE Replaced(_, _, _)
Replaced(parts, k, end) ==
    IF k > Len(parts) THEN <<>>
    ELSE parts[k].snippet
         \o Between(parts[k].hi,
                    IF k = Len(parts) THEN end ELSE parts[k + 1].lo)
         \o Replaced(parts, k + 1, end)

\* the lines from the first part's line through the last part's line with
\* each part's range replaced by its snippet
Expected(unsorted) ==
    LET parts == sort_by_key(unsorted)
        from == lookup_char_pos(parts[1].lo).line
        to   == lookup_char_pos(parts[Len(parts)].hi).line
    IN  Between(line_start(from), parts[1].lo)
        \o Replaced(parts, 1, line_start(to) + len(Lines[to]))

\* C16: splice_lines returns the lines from the first part's line through
\* the last part's line with each part's range replaced by its snippet and
\* every other character of those lines reproduced unchanged.
C16_RoundTrip ==
    splice.pc # "called" =>
        /\ splice.pc = "returned"
        /\ splice.buf = Expected(splice.parts)

\* a deletion and a replacement on two lines are spliced as the claim says
C16_Witness ==
    /\ splice.pc = "returned"
    /\ Len(splice.parts) = 2
    /\ lookup_char_pos(splice.parts[1].lo).line
           # lookup_char_pos(splice.parts[2].lo).line
    /\ \E i \in 1..2 : splice.parts[i].snippet = <<>>
                       /\ splice.parts[i].lo < splice.parts[i].hi
    /\ splice.buf = Expected(splice.parts)

\* the part of the last part's line after the part
Remainder(unsorted) ==
    LET parts == sort_by_key(unsorted)
        hi == lookup_char_pos(parts[Len(parts)].hi)
    IN  SubSeq(Lines[hi.line], hi.col + 1, Len(Lines[hi.line]))

LastSnippet(unsorted) ==
    LET parts == sort_by_key(unsorted) IN parts[Len(parts)].snippet

\* C17: after the last part the remainder of its line is appended, and this
\* is skipped exactly when the last part's snippet ends in a newline; the
\* returned text never ends with a newline.
C17_TrailingRemainder ==
    splice.pc = "returned" =>
        /\ splice.buf =
              pop_newlines(
                  IF ends_with_newline(LastSnippet(splice.parts))
                  THEN splice_loop(splice.parts).buf
                  ELSE splice_loop(splice.parts).buf
                       \o Remainder(splice.parts) \o <<"\n">>)
        /\ ~ends_with_newline(splice.buf)

\* the remainder is appended after a last snippet that does not end the
\* line, and left out after one that does
C17_Witness ==
    /\ splice.pc = "returned"
    /\ Remainder(splice.parts) # <<>>
    /\ \/ /\ ~ends_with_newline(LastSnippet(splice.parts))
          /\ splice.buf = splice_loop(splice.parts).buf
                              \o Remainder(splice.parts)
       \/ /\ ends_with_newline(LastSnippet(splice.parts))
          /\ splice.buf = pop_newlines(splice_loop(splice.parts).buf)


\* the layers of reference on a type, the outermost first
RECURSIVE LayersOf(_)
LayersOf(ty) ==
    IF ty.k = "ref" THEN <<ty.m>> \o LayersOf(ty.t) ELSE <<>>

\* the default binding mode once the first k layers have been peeled
ModeAfter(k) ==
    peel(RefTy(SubSeq(LayersOf(typeck.expected), 1, k)), typeck.def_bm,
         <<>>).def_bm

\* C19: in peel_off_references, peeling a & layer always yields
\* by-shared-reference; once the mode is by-shared-reference no later layer
\* makes it by-mutable-reference; the final mode is by-mutable-reference only
\* if the starting mode was by-value or by-mutable-reference and every
\* peeled layer was &mut.
C19_PeelOffReferences ==
    typeck.pc = "peeled" =>
        LET layers == LayersOf(typeck.expected)
            n == Len(layers)
        IN  /\ typeck.ret.def_bm = ModeAfter(n)
            /\ typeck.ret.expected.k # "ref"
            /\ \A k \in 1..n :
                  layers[k] = MutImmutable =>
                      ModeAfter(k) = BindByReference(MutImmutable)
            /\ \A k \in 0..n :
                  ModeAfter(k) = BindByReference(MutImmutable) =>
                      \A j \in k..n :
                          ModeAfter(j) = BindByReference(MutImmutable)
            /\ typeck.ret.def_bm = BindByReference(MutMutable) =>
                  /\ \/ typeck.def_bm.by = "value"
                     \/ typeck.def_bm = BindByReference(MutMutable)
                  /\ \A k \in 1..n : layers[k] = MutMutable

\* &mut & &mut i32 peeled from by-value: a &mut layer after the mode has
\* become by-shared-reference
C19_Witness ==
    /\ typeck.pc = "peeled"
    /\ typeck.def_bm = BindByValue(MutImmutable)
    /\ LayersOf(typeck.expected) = <<MutMutable, MutImmutable, MutMutable>>
    /\ typeck.ret.def_bm = BindByReference(MutImmutable)


\* the binding x without annotation
BindingX == Pat("Binding", [ba |-> "Unannotated", name |-> "x"], <<>>)

\* check_pat_top has returned from checking & x or &mut x, by mutbl,
\* against &mut i32
CheckedRefX(mutbl) ==
    /\ typeck.pc = "returned"
    /\ typeck.pat = Pat("Ref", mutbl, <<BindingX>>)
    /\ typeck.expected = Ref(MutMutable, Prim("i32"))

\* the type recorded for a node, as far as inference has resolved it
TypeOf(id) ==
    resolve_vars_if_possible(typeck.cx.subst, typeck.cx.node_types[id])

\* C20 (amended): checking &mut x against &mut i32 records x with type i32
\* and binding mode by-value and reports nothing; checking &x against
\* &mut i32 reports one mismatch and records x with binding mode by-value
\* and a type that stays an unresolved inference variable.
C20_RefPatternBinding ==
    /\ CheckedRefX(MutMutable) =>
          /\ <<1>> \in DOMAIN typeck.cx.node_types
          /\ TypeOf(<<1>>) = Prim("i32")
          /\ typeck.cx.pat_binding_modes[<<1>>] = BindByValue(MutImmutable)
          /\ TypeOf(<<>>) = Ref(MutMutable, Prim("i32"))
          /\ typeck.cx.diags = <<>>
    /\ CheckedRefX(MutImmutable) =>
          /\ <<1>> \in DOMAIN typeck.cx.node_types
          /\ TypeOf(<<1>>).k = "infer"
          /\ typeck.cx.pat_binding_modes[<<1>>] = BindByValue(MutImmutable)
          /\ TypeOf(<<>>) = Ref(MutImmutable, TypeOf(<<1>>))
          /\ Len(typeck.cx.diags) = 1
          /\ typeck.cx.diags[1].code = "E0308"
          /\ typeck.cx.diags[1].span = span_of(<<>>)

\* &mut x has been checked against &mut i32 and x has its type
C20_Witness ==
    /\ CheckedRefX(MutMutable)
    /\ TypeOf(<<1>>) = Prim("i32")

\* C20: checking &mut x against &mut i32 records x with type i32 and binding
\* mode by-mutable-reference, and checking &x against &mut i32 records x
\* with type i32 and binding mode by-reference.
C20_Original ==
    \A mutbl \in Mutability :
        CheckedRefX(mutbl) =>
            /\ TypeOf(<<1>>) = Prim("i32")
            /\ typeck.cx.pat_binding_modes[<<1>>] = BindByReference(mutbl)


\* the nodes of the pattern check_pat_top was called on
Nodes == nodes(typeck.pat, <<>>)

\* C18: check_pat always completes by recording a type for the pattern node
\* it was called on, for every pattern kind and every outcome of the
\* kind-specific check, the error paths included.
C18_AlwaysRecordsType ==
    typeck.pc = "returned" =>
        \A n \in Nodes : n.id \in DOMAIN typeck.cx.node_types

\* a check that reported errors and recorded a type for every node
C18_Witness ==
    /\ typeck.pc = "returned"
    /\ Len(typeck.cx.diags) >= 2
    /\ Cardinality(Nodes) >= 3
    /\ \A n \in Nodes : n.id \in DOMAIN typeck.cx.node_types


\* the calls of check_pat on the node id
CallsOn(id) ==
    {i \in DOMAIN typeck.cx.calls : typeck.cx.calls[i].id = id}

\* C21: the inner pattern of every explicit reference pattern is checked
\* with default binding mode by-value, whatever default binding mode the
\* reference pattern was checked with, and no layer of reference is peeled
\* from the expected type for a wildcard, a binding or a reference pattern.
C21_RefResetsBindingMode ==
    typeck.pc = "returned" =>
        \A n \in Nodes :
            /\ n.pat.kind = "Ref" =>
                  /\ CallsOn(Append(n.id, 1)) # {}
                  /\ \A i \in CallsOn(Append(n.id, 1)) :
                        typeck.cx.calls[i].def_bm = BindByValue(MutImmutable)
            /\ n.pat.kind \in {"Wild", "Binding", "Ref"} =>
                  /\ n.id \notin DOMAIN typeck.cx.pat_adjustments
                  /\ \A i \in CallsOn(n.id) :
                        typeck.cx.calls[i].peeled = typeck.cx.calls[i].expected

\* a reference pattern checked with default binding mode by-reference, its
\* expected type a reference, and the binding inside it bound by value
C21_Witness ==
    /\ typeck.pc = "returned"
    /\ \E n \in Nodes :
          /\ n.pat.kind = "Ref"
          /\ n.pat.subs[1].kind = "Binding"
          /\ n.pat.subs[1].attr.ba = "Unannotated"
          /\ \E i \in CallsOn(n.id) :
                /\ typeck.cx.calls[i].def_bm.by = "reference"
                /\ resolve_vars_if_possible(
                       typeck.cx.subst, typeck.cx.calls[i].expected).k = "ref"
                /\ typeck.cx.diags = <<>>
          /\ typeck.cx.pat_binding_modes[Append(n.id, 1)]
                = BindByValue(MutImmutable)


\* the diagnostics whose primary span is the pattern node id
DiagsAt(id) ==
    {j \in DOMAIN typeck.cx.diags : typeck.cx.diags[j].span = span_of(id)}

\* the type a call was made with, as the finished check resolves it
Resolved(ty) == resolve_vars_if_possible(typeck.cx.subst, ty)

ValidEndpoint(ty) == ty \in {Prim("i32"), Prim("char"), Error}

\* the equality demands made at the pattern node id, in the order made
DemandsAt(id) ==
    SelectSeq(typeck.cx.demands, LAMBDA d : d.span.node = id)

\* the diagnostics of the pattern node id or of a part of it
DiagsIn(id) ==
    {j \in DOMAIN typeck.cx.diags : typeck.cx.diags[j].span.node = id}

\* C24: a range pattern with an end point whose type is not numeric, char or
\* erroneous reports exactly one diagnostic, with both end points' types as
\* notes, and demands no equality with the expected type; with two valid end
\* points it reports no such diagnostic and demands the expected type equal
\* to the type of each end point.
C24_RangeEndpoints ==
    typeck.pc = "returned" =>
        \A n \in Nodes :
            n.pat.kind = "Range" =>
                \A i \in CallsOn(n.id) :
                    LET lhs_ty == n.pat.attr[1]
                        rhs_ty == n.pat.attr[2]
                        exp == typeck.cx.calls[i].peeled
                        invalid == {j \in DiagsIn(n.id) :
                                       typeck.cx.diags[j].code = "E0029"}
                    IN  IF ~ValidEndpoint(lhs_ty) \/ ~ValidEndpoint(rhs_ty)
                        THEN /\ Cardinality(DiagsIn(n.id)) = 1
                             /\ \A j \in DiagsIn(n.id) :
                                   /\ typeck.cx.diags[j].code = "E0029"
                                   /\ typeck.cx.diags[j].notes
                                         = <<<<"start type", lhs_ty>>,
                                             <<"end type", rhs_ty>>>>
                             /\ DemandsAt(n.id) = <<>>
                        ELSE /\ invalid = {}
                             /\ DemandsAt(n.id)
                                   = <<[span |-> span_of(n.id),
                                        expected |-> exp, actual |-> lhs_ty],
                                       [span |-> span_of(n.id),
                                        expected |-> exp, actual |-> rhs_ty]>>

\* the range pattern 0..=true has been checked inside another pattern: the
\* diagnostic is at its end point and no demand was made for it
C24_Witness ==
    /\ typeck.pc = "returned"
    /\ \E n \in Nodes :
          /\ n.pat.kind = "Range"
          /\ n.id # <<>>
          /\ n.pat.attr = <<Prim("i32"), Prim("bool")>>
          /\ \E j \in DiagsIn(n.id) :
                typeck.cx.diags[j].span = span_in(n.id, "end", 0)
          /\ DemandsAt(n.id) = <<>>
          /\ typeck.cx.demands # <<>>


\* the struct patterns of a struct or of a variant, not of a union
StructNodes ==
    {n \in Nodes :
        /\ n.pat.kind = "Struct"
        /\ n.pat.attr.qpath \in DOMAIN Variants
        /\ Variants[n.pat.attr.qpath].descr # "union"}

\* the declared fields that the struct pattern n does not name, in the
\* order of their declaration
NotNamed(n) ==
    LET variant == Variants[n.pat.attr.qpath]
        named == {n.pat.attr.fields[k] : k \in DOMAIN n.pat.attr.fields}
    IN  SelectSeq([i \in DOMAIN variant.fields |-> variant.fields[i].ident],
                  LAMBDA x : x \notin named)

\* the "pattern does not mention" diagnostics of the pattern node id
Unmentioned(id) ==
    {j \in DiagsIn(id) : typeck.cx.diags[j].code = "E0027"}

\* the field names that a "does not have a field named" diagnostic of the
\* pattern node id suggests as similar to the unknown name
SuggestedAt(id) ==
    {typeck.cx.diags[j].notes[1][2] :
        j \in {j \in DiagsIn(id) : /\ typeck.cx.diags[j].code = "E0026"
                                  /\ typeck.cx.diags[j].notes # <<>>}}

\* C23 as stated: a struct pattern without ".." that leaves declared fields
\* unnamed reports exactly one "pattern does not mention" diagnostic, which
\* lists every such field; with ".." or with every field named it reports
\* none.
C23_Original ==
    typeck.pc = "returned" =>
        \A n \in StructNodes :
            IF ~n.pat.attr.etc /\ NotNamed(n) # <<>>
            THEN /\ Cardinality(Unmentioned(n.id)) = 1
                 /\ \A j \in Unmentioned(n.id) :
                       typeck.cx.diags[j].args = NotNamed(n)
            ELSE Unmentioned(n.id) = {}

\* C23: a struct pattern without ".." reports at most one "pattern does not
\* mention" diagnostic; it lists every declared field the pattern does not
\* name, except the field that the diagnostic of a single unknown field name
\* has suggested as the similar name, and it is reported exactly when that
\* list is not empty; with ".." it is never reported.
C23_UnmentionedFields ==
    typeck.pc = "returned" =>
        \A n \in StructNodes :
            LET missing == SelectSeq(NotNamed(n),
                                     LAMBDA x : x \notin SuggestedAt(n.id))
            IN  IF ~n.pat.attr.etc /\ missing # <<>>
                THEN /\ Cardinality(Unmentioned(n.id)) = 1
                     /\ \A j \in Unmentioned(n.id) :
                           typeck.cx.diags[j].args = missing
                ELSE Unmentioned(n.id) = {}

\* two struct patterns of S have been checked: one names the unknown field
\* qux and is told that it mentions neither foo nor bar
C23_Witness ==
    /\ typeck.pc = "returned"
    /\ \E n \in StructNodes :
          /\ n.pat.attr.fields = <<qux>>
          /\ ~n.pat.attr.etc
          /\ SuggestedAt(n.id) = {}
          /\ \E j \in Unmentioned(n.id) :
                typeck.cx.diags[j].args = <<foo, bar>>


\* the diagnostics of the pattern node id that have this error code
CodedAt(id, code) ==
    {j \in DiagsIn(id) : typeck.cx.diags[j].code = code}

\* C25: a slice pattern with b subpatterns before and a after, checked
\* against an array of known length L: without a rest subpattern the
\* wrong-element-count error is reported if and only if b + a # L; with one,
\* the not-enough-elements error is reported if and only if L < b + a, and
\* otherwise the rest is checked against the array type of length
\* L - (b + a).
C25_SliceLength ==
    typeck.pc = "returned" =>
        \A n \in Nodes :
            n.pat.kind = "Slice" =>
                \A i \in CallsOn(n.id) :
                    LET exp == typeck.cx.calls[i].peeled
                        b == n.pat.attr.before
                        a == Len(n.pat.subs) - b
                                 - (IF n.pat.attr.slice THEN 1 ELSE 0)
                    IN  exp.k = "array" /\ exp.size # None =>
                            LET L == CHOOSE size \in exp.size : TRUE
                            IN  IF ~n.pat.attr.slice
                                THEN /\ CodedAt(n.id, "E0527") # {} <=> b + a # L
                                     /\ CodedAt(n.id, "E0528") = {}
                                ELSE /\ CodedAt(n.id, "E0528") # {} <=> L < b + a
                                     /\ CodedAt(n.id, "E0527") = {}
                                     /\ L >= b + a =>
                                           \A j \in CallsOn(Append(n.id, b + 1)) :
                                               typeck.cx.calls[j].expected
                                                   = Array(exp.t,
                                                           Some(L - (b + a)))

\* [x, r @ ..] has been checked against an array of the greatest length:
\* nothing is reported and r is an array one element shorter
C25_Witness ==
    /\ typeck.pc = "returned"
    /\ typeck.pat.kind = "Slice"
    /\ typeck.pat.attr = [before |-> 1, slice |-> TRUE]
    /\ Len(typeck.pat.subs) = 2
    /\ typeck.expected = Array(Prim("i32"), Some(MaxSize))
    /\ typeck.cx.diags = <<>>
    /\ TypeOf(<<2>>) = Array(Prim("i32"), Some(MaxSize - 1))


\* C26: each direct subpattern of a pattern is checked exactly once for each
\* check of the pattern, whether the check of the pattern succeeds or
\* reports an error: a bad pattern never prevents the check of its
\* subpatterns or of its siblings.
C26_SubpatternsChecked ==
    typeck.pc \in {"returned", "panicked"} =>
        \A n \in Nodes :
            \A k \in DOMAIN n.pat.subs :
                Cardinality(CallsOn(Append(n.id, k)))
                    = Cardinality(CallsOn(n.id))

\* a tuple struct pattern with the wrong number of fields has been reported
\* inside another pattern and its subpattern was checked against the error
\* type
C26_Witness ==
    /\ typeck.pc = "returned"
    /\ \E n \in Nodes :
          /\ n.pat.kind = "TupleStruct"
          /\ n.id # <<>>
          /\ CodedAt(n.id, "E0023") # {}
          /\ \E j \in CallsOn(Append(n.id, 1)) :
                typeck.cx.calls[j].expected = Error


\* the errors that C27 names: a mismatch, a wrong count of fields or of
\* elements, an unknown, duplicate or missing field, an invalid end point of
\* a range, a pointer that cannot be dereferenced, no array or slice
NodeErrors ==
    {"E0308", "E0023", "E0527", "E0528", "E0026", "E0025", "E0027", "E0029",
     "E0033", "E0529"}

C28_ResetErrCount ==
    /\ last.op = "reset_err_count" =>
          /\ inner.err_count = 0
          /\ inner.deduplicated_err_count = 0
          /\ inner.emitted_diagnostics = {}
          /\ inner.delayed_span_bugs = pre.inner.delayed_span_bugs
          /\ inner.taught_diagnostics = pre.inner.taught_diagnostics
          /\ inner.emitted_diagnostic_codes = pre.inner.emitted_diagnostic_codes
          /\ inner.continue_after_error = pre.inner.continue_after_error
          /\ inner.emitter = pre.inner.emitter
          /\ tracked = pre.tracked
          /\ unwind = pre.unwind
    /\ (/\ last.op = "emit_diagnostic"
        /\ ~Filtered(last.d)
        /\ pre.inner.emitted_diagnostics = {}) =>
          inner.emitter = Append(pre.inner.emitter, last.d)

\* an error that the emitter had received was emitted again after a reset:
\* the emitter has received it twice and one error is counted
C28_Witness ==
    /\ last.op = "emit_diagnostic"
    /\ is_error(last.d)
    /\ pre.inner.emitted_diagnostics = {}
    /\ pre.inner.err_count = 0
    /\ pre.inner.emitter = <<last.d>>
    /\ inner.emitter = <<last.d, last.d>>
    /\ inner.deduplicated_err_count = 1


\* C29: the deduplicated error count never exceeds the raw error count nor
\* the number of hashes of emitted diagnostics, and no operation but
\* reset_err_count lowers either counter.
C29_Counters ==
    /\ inner.deduplicated_err_count <= inner.err_count
    /\ inner.deduplicated_err_count <= Cardinality(inner.emitted_diagnostics)
    /\ last.op # "reset_err_count" =>
          /\ inner.err_count >= pre.inner.err_count
          /\ inner.deduplicated_err_count >= pre.inner.deduplicated_err_count

\* the same error was emitted twice and a note once: the deduplicated count
\* is below the raw count and below the number of hashes
C29_Witness ==
    /\ last.op = "emit_diagnostic"
    /\ inner.deduplicated_err_count = 1
    /\ inner.err_count = 2
    /\ Cardinality(inner.emitted_diagnostics) = 2

\* the helpers that emit at once
SpanHelpers ==
    {"span_fatal", "span_fatal_with_code", "span_err", "span_err_with_code",
     "span_warn", "span_warn_with_code", "span_bug_no_panic",
     "span_note_without_error"}

\* at least one error is counted and the session does not continue after
\* errors
ShouldAbort == inner.err_count > 0 /\ ~inner.continue_after_error

\* C30 as stated: each helper raises the fatal signal once an error is
\* counted and continue_after_error is false, and none raises it while
\* continue_after_error is true.
C30_Original ==
    last.op \in SpanHelpers =>
        /\ ShouldAbort => unwind = "FatalError"
        /\ inner.continue_after_error => unwind # "FatalError"

\* C30: a helper that emits at once ends in the panic of treat_err_as_bug
\* only if it emitted an error that reached the threshold of the flag;
\* otherwise it goes on to abort_if_errors_and_should_abort and raises the
\* fatal signal if and only if an error is counted and continue_after_error
\* is false, whatever the level of the diagnostic and whether or not it was
\* suppressed.
C30_SpanHelpers ==
    last.op \in SpanHelpers =>
        /\ unwind \in {"none", "FatalError", "treat_err_as_bug"}
        /\ unwind = "treat_err_as_bug" =>
              /\ is_error(last.d)
              /\ \E c \in flags.treat_err_as_bug : inner.err_count >= c
        /\ unwind # "treat_err_as_bug" =>
              (unwind = "FatalError" <=> ShouldAbort)

\* an error was counted while the session continued after errors; then
\* continue_after_error was switched off and a warning, which is suppressed,
\* raised the fatal signal
C30_Witness ==
    /\ last.op = "span_warn"
    /\ ~flags.can_emit_warnings
    /\ pre.inner.err_count = 1
    /\ pre.unwind = "none"
    /\ inner.emitter = pre.inner.emitter
    /\ unwind = "FatalError"

=============================================================================
